---- MODULE Spec2Model ----
(***************************************************************************)
(* Turn-completion arbitration pipeline of the natural_conversation bot:   *)
(* StatementJudgeContextFilter, CompletenessCheck and OutputGate,          *)
(* synchronised through one EventNotifier, plus the idle fallback.         *)
(* Source: src/pipecat-starters/natural_conversation/bot.py                *)
(* And the graceful shutdown of the request-serving host, WaitingServer.   *)
(* Source: src/pipecat-base/waiting_server.py                              *)
(* And the dial-out retries and the voicemail hand-off of the pstn_sip     *)
(* bots, the capability detection of FeatureManager and the WhatsApp       *)
(* webhook verification.                                                   *)
(* Sources: src/pipecat-starters/pstn_sip/bot.py, bot_complex_voicemail.py,*)
(* src/pipecat-base/feature_manager.py,                                    *)
(* src/local-test/whatsapp_request_handler.py, mock_pipecat_cloud.py       *)
(*                                                                         *)
(* Every "await self.push_frame(...)" of the gate's flush loop is a point  *)
(* where the event loop may run another task, so a flush is one step per   *)
(* buffered frame and process_frame may run between two of them.           *)
(***************************************************************************)
EXTENDS Integers, Sequences, FiniteSets, TLC

\* ---------------------------------------------------------------- bounds
\* Number of distinct downstream data frames the speculative branch produces.
MaxFrames == 2
\* Longest conversation context handed to the filter.
MaxMsgs == 2
\* Largest should_exit_timeout, in sleeps of the shutdown's wait loops.
MaxTimeout == 2
\* Most connections open, and most background tasks running, at shutdown.
MaxOpen == 2
\* Largest max_attempts of a DialOutHandler.
MaxAttempts == 2
\* Longest dialout_settings list.
MaxSettings == 2
\* Most start_dialout calls made after the handler has given up.
MaxRefused == 2
\* Longest hub.challenge, in characters.
MaxChallenge == 2
\* Most lifespans registered with add_lifespan_to_app.
MaxLifespans == 3
\* Most bot sessions the mock cloud starts.
MaxSessions == 2
\* Most WhatsApp call ids.
MaxCalls == 1
\* Most concurrent sessions of the base image's app.
MaxBotSessions == 2

VARIABLES
    pending,        \* Notifier: a notification is set and not yet consumed
    gate_open,      \* OutputGate._gate_open
    frames_buffer,  \* OutputGate._frames_buffer: sequence of <<frame, direction>>
    gate_task,      \* OutputGate._gate_task: "none", "waiting", "flushing", "cancelled"
    flush_list,     \* the list object the flush loop's for statement iterates
    flush_idx,      \* how many elements of flush_list the for statement has pushed
    flush_same,     \* TRUE while _frames_buffer is still that same list object
    sink,           \* non-system frames the gate has pushed downstream, in order
    next_id,        \* id of the next downstream data frame reaching the gate
    end_sent,       \* the EndFrame of the session has reached the gate
    raised,         \* an exception escaped a process_frame call
    silent,         \* the user has fallen silent and the classifier answers no more
    last,           \* the call of the last step: [op, frame, dir]
    out,            \* what the last step did, in order: pushes and notifies
    pushed_closed,  \* history: ids that reached process_frame while the gate was closed
    released,       \* history: ids that were buffered when a wait() returned
    discarded,      \* history: ids in _frames_buffer when an interruption was processed
    stale,          \* history: ids not yet pushed by a flush in progress when an interruption was processed
    cleared,        \* history: ids in _frames_buffer of a closed gate when an interruption was processed
    notified,       \* history: notify() calls since the last wait() return, capped at 2
    server_pc,      \* WaitingServer: where shutdown() is: "serving", "connections", "tasks", "lifespan", "exited"
    should_exit_timeout,   \* Config.should_exit_timeout, NoTimeout for None
    should_exit_deadline,  \* shutdown's local should_exit_deadline, NoTimeout for None
    now,            \* time.time(), counted in sleeps since shutdown() was called
    connections,    \* number of entries of server_state.connections
    tasks,          \* number of entries of server_state.tasks
    force_exit,     \* Server.force_exit
    lifespan_down,  \* lifespan.shutdown() has been awaited
    in_flight,      \* the classification request awaiting its verdict: "none", "current", "stale"
    dialout,        \* DialOutHandler: its fields, the rounds in progress and the dials made
    feature_manager,\* FeatureManager: the probe outcomes and self.features
    voicemail,      \* bot_complex_voicemail main(): where it is, and its two pipeline handlers
    webhook,        \* the webhook verification request and its outcome
    lifespan,       \* app.router.lifespan_context and the lifespans entered and exited
    bot_session,    \* a bot session of the base image: the request, run_bot and its log
    mock_cloud      \* the mock cloud: active_sessions, whatsapp_call_sessions and its requests

pipeline_vars == <<pending, gate_open, frames_buffer, gate_task, flush_list, flush_idx,
                   flush_same, sink, next_id, end_sent, raised, silent, last, out,
                   pushed_closed, released, discarded, stale, cleared, notified>>

server_vars == <<server_pc, should_exit_timeout, should_exit_deadline, now,
                 connections, tasks, force_exit, lifespan_down>>

vars == <<pipeline_vars, server_vars, in_flight, dialout, feature_manager, voicemail, webhook, lifespan, bot_session, mock_cloud>>

\* Everything a step of the turn-completion pipeline cannot touch.
outside_pipeline == <<server_vars, dialout, feature_manager, voicemail, webhook, lifespan, bot_session, mock_cloud>>
\* Everything a step of the WaitingServer cannot touch.
outside_server == <<pipeline_vars, in_flight, dialout, feature_manager, voicemail, webhook, lifespan, bot_session, mock_cloud>>
\* Everything a step of the FeatureManager cannot touch.
outside_features == <<pipeline_vars, server_vars, in_flight, dialout, voicemail, webhook, lifespan, bot_session, mock_cloud>>
\* Everything a step of the voicemail-detection bot's main() cannot touch.
outside_voicemail == <<pipeline_vars, server_vars, in_flight, dialout, feature_manager, webhook, lifespan, bot_session, mock_cloud>>
\* Everything the webhook verification route cannot touch.
outside_webhook == <<pipeline_vars, server_vars, in_flight, dialout, feature_manager, voicemail, lifespan, bot_session, mock_cloud>>
\* Everything a step of the application's lifespan cannot touch.
outside_lifespan == <<pipeline_vars, server_vars, in_flight, dialout, feature_manager, voicemail, webhook, bot_session, mock_cloud>>
\* Everything a step of a bot session cannot touch.
outside_bot_session == <<pipeline_vars, server_vars, in_flight, dialout, feature_manager, voicemail, webhook, lifespan, mock_cloud>>
\* Everything a step of the mock cloud cannot touch.
outside_mock_cloud == <<pipeline_vars, server_vars, in_flight, dialout, feature_manager, voicemail, webhook, lifespan, bot_session>>
\* Everything a step of the DialOutHandler cannot touch.
outside_dialout == <<pipeline_vars, server_vars, in_flight, feature_manager, voicemail, webhook, lifespan, bot_session, mock_cloud>>

gate_vars == <<gate_open, frames_buffer, gate_task, flush_list, flush_idx, flush_same>>
hist_gate == <<pushed_closed, released, discarded, stale, cleared>>

\* ---------------------------------------------------------------- frames
DOWNSTREAM == "DOWNSTREAM"
UPSTREAM == "UPSTREAM"
Directions == {DOWNSTREAM, UPSTREAM}

Frame(t) == [type |-> t, id |-> 0, text |-> ""]
DataFrame(n) == [type |-> "TextFrame", id |-> n, text |-> "data"]
TextFrame(s) == [type |-> "TextFrame", id |-> 0, text |-> s]

\* The frame classes for which isinstance(frame, SystemFrame) holds. In the
\* pipecat frame hierarchy EndFrame is a ControlFrame, not a SystemFrame, so an
\* EndFrame does not enter the SystemFrame branch of a process_frame.
SystemFrameTypes == {"StartFrame", "CancelFrame", "StartInterruptionFrame",
                     "StopInterruptionFrame", "UserStoppedSpeakingFrame"}
IsSystemFrame(frame) == frame.type \in SystemFrameTypes

Push(frame, dir) == [eff |-> "push", frame |-> frame, dir |-> dir]
NotifyEff == [eff |-> "notify"]
\* wait() returned, consuming n notify() calls (n capped at 2)
WaitEff(n) == [eff |-> "wait", notified |-> n]
Call(op, frame, dir) == [op |-> op, frame |-> frame, dir |-> dir]

Ids(buf) == {buf[i][1].id : i \in 1..Len(buf)} \ {0}
Min2(n) == IF n >= 2 THEN 2 ELSE n

\* ---------------------------------------------------------------- Notifier
\* notify(): sets the notification; any number of calls before a wait() leave one.
NotifierNotify ==
    /\ pending' = TRUE
    /\ notified' = Min2(notified + 1)

\* Variant: wait() takes one notification off a count instead of clearing a flag.
NotifierWaitReturn_counting ==
    /\ pending
    /\ pending' = (notified >= 2)
    /\ notified' = notified - 1

\* wait() can return only when a notification is set, and consumes it.
NotifierWaitReturn ==
    /\ pending
    /\ pending' = FALSE
    /\ notified' = 0

NotifierUnchanged == UNCHANGED <<pending, notified>>

\* ---------------------------------------------------------------- Init
\* None, for should_exit_timeout and should_exit_deadline.
NoTimeout == -1

\* The server before shutdown() is called, with its configuration and what is
\* open at that moment.
ServerInitWith(timeout, conns, bg) ==
    /\ server_pc = "serving"
    /\ should_exit_timeout = timeout
    /\ should_exit_deadline = NoTimeout
    /\ now = 0
    /\ connections = conns
    /\ tasks = bg
    /\ force_exit = FALSE
    /\ lifespan_down = FALSE

PipelineInitWith(start_open, call) ==
    /\ pending = FALSE
    /\ gate_open = start_open
    /\ frames_buffer = <<>>
    /\ gate_task = "none"
    /\ flush_list = <<>>
    /\ flush_idx = 0
    /\ flush_same = FALSE
    /\ sink = <<>>
    /\ next_id = 1
    /\ end_sent = FALSE
    /\ raised = FALSE
    /\ silent = FALSE
    /\ last = call
    /\ out = <<>>
    /\ pushed_closed = {}
    /\ released = {}
    /\ discarded = {}
    /\ stale = {}
    /\ cleared = {}
    /\ notified = 0

\* The pipeline, the server and the components below each start from their
\* construction; a specification of one of them draws that one's inputs and
\* leaves the others as constructed.
RestInit ==
    /\ in_flight = "none"
    /\ lifespan = [constructed |-> FALSE]
    /\ bot_session = [constructed |-> FALSE]
    /\ mock_cloud = [constructed |-> FALSE]
    /\ dialout = [constructed |-> FALSE]
    /\ feature_manager = [constructed |-> FALSE]
    /\ voicemail = [constructed |-> FALSE]
    /\ webhook = [constructed |-> FALSE]

InitWith(start_open, call) ==
    /\ PipelineInitWith(start_open, call)
    /\ ServerInitWith(NoTimeout, 0, 0)
    /\ RestInit

\* OutputGate(notifier=notifier, start_open=...): run_bot passes True, the
\* parameter's default is False.
Init == \E start_open \in BOOLEAN :
            InitWith(start_open, Call("init", Frame("none"), DOWNSTREAM))

\* ---------------------------------------------------------------- OutputGate
\* push_frame(frame, direction) from process_frame: the frame leaves the gate;
\* a non-system frame going downstream reaches the sink.
GatePushFrame(frame, direction) ==
    /\ out' = <<Push(frame, direction)>>
    /\ sink' = IF direction = DOWNSTREAM /\ ~IsSystemFrame(frame)
               THEN Append(sink, frame) ELSE sink

\* _start(): a fresh buffer, and the flush-loop task is created; the task runs
\* to its first await, the wait() on the notifier.
OutputGate_start ==
    /\ frames_buffer' = <<>>
    /\ gate_task' = "waiting"
    /\ flush_list' = <<>>
    /\ flush_idx' = 0
    /\ flush_same' = FALSE
    /\ UNCHANGED gate_open

\* Variant: _stop() also closes the gate.
OutputGate_stop_closes ==
    /\ gate_task' = "cancelled"
    /\ flush_list' = <<>>
    /\ flush_idx' = 0
    /\ flush_same' = FALSE
    /\ gate_open' = FALSE
    /\ UNCHANGED frames_buffer

\* _stop(): cancel_task(self._gate_task). The CancelledError is raised inside
\* the task at the await it is suspended in and the handler breaks out of its
\* loop, leaving the buffer as it is.
OutputGate_stop ==
    /\ gate_task' = "cancelled"
    /\ flush_list' = <<>>
    /\ flush_idx' = 0
    /\ flush_same' = FALSE
    /\ UNCHANGED <<gate_open, frames_buffer>>

\* Variant: an interruption closes the gate and leaves the buffer as it is.
OutputGate_interruption_keeps ==
    /\ gate_open' = FALSE
    /\ UNCHANGED <<frames_buffer, gate_task, flush_list, flush_idx, flush_same>>

\* StartInterruptionFrame: self._frames_buffer = [] binds a NEW list (the list
\* a running for statement iterates is not touched), then close_gate().
OutputGate_interruption ==
    /\ frames_buffer' = <<>>
    /\ flush_same' = FALSE
    /\ gate_open' = FALSE
    /\ UNCHANGED <<gate_task, flush_list, flush_idx>>

\* Variant: a frame arriving at a closed gate is forwarded instead of buffered.
OutputGate_append_forward(frame, direction) ==
    /\ GatePushFrame(frame, direction)
    /\ UNCHANGED gate_vars

\* self._frames_buffer.append((frame, direction)): appends to the list object,
\* which a running for statement sees if it iterates that same object.
OutputGate_append(frame, direction) ==
    /\ frames_buffer' = Append(frames_buffer, <<frame, direction>>)
    /\ flush_list' = IF gate_task = "flushing" /\ flush_same
                     THEN Append(flush_list, <<frame, direction>>) ELSE flush_list
    /\ out' = <<>>
    /\ UNCHANGED <<gate_open, gate_task, flush_idx, flush_same, sink>>

\* The SystemFrame branch of process_frame.
OutputGate_system(frame, direction) ==
    IF frame.type \in {"EndFrame", "CancelFrame"} /\ gate_task = "none"
    THEN \* self._gate_task does not exist yet: AttributeError, nothing pushed
         /\ raised' = TRUE
         /\ out' = <<>>
         /\ UNCHANGED <<gate_vars, sink>>
    ELSE /\ raised' = raised
         /\ GatePushFrame(frame, direction)
         /\ CASE frame.type = "StartFrame" -> OutputGate_start
              [] frame.type \in {"EndFrame", "CancelFrame"} -> OutputGate_stop
              [] frame.type = "StartInterruptionFrame" -> OutputGate_interruption
              [] OTHER -> UNCHANGED gate_vars

\* The interruption bookkeeping (history only).
InterruptionHistory(frame) ==
    IF IsSystemFrame(frame) /\ frame.type = "StartInterruptionFrame"
    THEN /\ discarded' = discarded \cup Ids(frames_buffer)
         /\ cleared' = cleared \cup (IF gate_open THEN {} ELSE Ids(frames_buffer))
         /\ stale' = stale \cup
                (IF gate_task = "flushing"
                 THEN {flush_list[i][1].id : i \in (flush_idx + 1)..Len(flush_list)} \ {0}
                 ELSE {})
    ELSE UNCHANGED <<discarded, stale, cleared>>

\* Variant: an interruption-begin also clears the notification.
GateNotifier_clears(frame) ==
    IF frame.type = "StartInterruptionFrame"
    THEN pending' = FALSE /\ notified' = 0
    ELSE NotifierUnchanged

\* lines 303-327: process_frame calls neither notify() nor wait(), whatever
\* the frame.
GateNotifier(frame) == NotifierUnchanged

\* Variant: the gate applies to a frame whatever its direction.
GoesDownstream_always(direction) == TRUE

\* line 319: direction != FrameDirection.DOWNSTREAM
GoesDownstream(direction) == direction = DOWNSTREAM

\* OutputGate.process_frame(frame, direction)
OutputGate_process_frame(frame, direction) ==
    /\ last' = Call("gate", frame, direction)
    /\ pushed_closed' = IF ~IsSystemFrame(frame) /\ direction = DOWNSTREAM /\ ~gate_open
                        THEN pushed_closed \cup ({frame.id} \ {0}) ELSE pushed_closed
    /\ InterruptionHistory(frame)
    /\ UNCHANGED <<released, silent, outside_pipeline>>
    /\ GateNotifier(frame)
    /\ IF IsSystemFrame(frame)
       THEN OutputGate_system(frame, direction)
       ELSE /\ raised' = raised
            /\ IF ~GoesDownstream(direction)
               THEN GatePushFrame(frame, direction) /\ UNCHANGED gate_vars
               ELSE IF gate_open
                    THEN GatePushFrame(frame, direction) /\ UNCHANGED gate_vars
                    ELSE OutputGate_append(frame, direction)

\* Variant: a wait() return toggles the gate instead of opening it.
GateTaskWake_toggles ==
    /\ gate_task = "waiting"
    /\ NotifierWaitReturn
    /\ gate_open' = ~gate_open
    /\ released' = released \cup Ids(frames_buffer)
    /\ IF frames_buffer = <<>>
       THEN /\ frames_buffer' = <<>>
            /\ UNCHANGED <<gate_task, flush_list, flush_idx, flush_same>>
       ELSE /\ gate_task' = "flushing"
            /\ flush_list' = frames_buffer
            /\ flush_idx' = 0
            /\ flush_same' = TRUE
            /\ UNCHANGED frames_buffer
    /\ last' = Call("task", Frame("none"), DOWNSTREAM)
    /\ out' = <<WaitEff(notified)>>
    /\ UNCHANGED <<sink, next_id, end_sent, raised, silent, pushed_closed, discarded,
                   stale, cleared, outside_pipeline, in_flight>>

\* _gate_task_handler, lines 339-341: wait() returns, open_gate(), and the for
\* statement takes the current buffer list. With an empty buffer the loop body
\* never awaits, the buffer is rebound and the task is back in wait().
GateTaskWake ==
    /\ gate_task = "waiting"
    /\ NotifierWaitReturn
    /\ gate_open' = TRUE
    /\ released' = released \cup Ids(frames_buffer)
    /\ IF frames_buffer = <<>>
       THEN /\ frames_buffer' = <<>>
            /\ UNCHANGED <<gate_task, flush_list, flush_idx, flush_same>>
       ELSE /\ gate_task' = "flushing"
            /\ flush_list' = frames_buffer
            /\ flush_idx' = 0
            /\ flush_same' = TRUE
            /\ UNCHANGED frames_buffer
    /\ last' = Call("task", Frame("none"), DOWNSTREAM)
    /\ out' = <<WaitEff(notified)>>
    /\ UNCHANGED <<sink, next_id, end_sent, raised, silent, pushed_closed, discarded,
                   stale, cleared, outside_pipeline, in_flight>>

\* Variant: the for statement walks the buffer from its end.
GateTaskPush_reversed ==
    /\ gate_task = "flushing"
    /\ flush_idx < Len(flush_list)
    /\ sink' = Append(sink, flush_list[Len(flush_list) - flush_idx][1])
    /\ flush_idx' = flush_idx + 1
    /\ last' = Call("task", Frame("none"), DOWNSTREAM)
    /\ out' = <<Push(flush_list[Len(flush_list) - flush_idx][1],
                     flush_list[Len(flush_list) - flush_idx][2])>>
    /\ UNCHANGED <<gate_open, frames_buffer, gate_task, flush_list, flush_same,
                   next_id, end_sent, raised, silent, hist_gate, outside_pipeline, in_flight>>
    /\ NotifierUnchanged

\* line 342: one await self.push_frame(frame, direction) of the for statement.
GateTaskPush ==
    /\ gate_task = "flushing"
    /\ flush_idx < Len(flush_list)
    /\ sink' = Append(sink, flush_list[flush_idx + 1][1])
    /\ flush_idx' = flush_idx + 1
    /\ last' = Call("task", Frame("none"), DOWNSTREAM)
    /\ out' = <<Push(flush_list[flush_idx + 1][1], flush_list[flush_idx + 1][2])>>
    /\ UNCHANGED <<gate_open, frames_buffer, gate_task, flush_list, flush_same,
                   next_id, end_sent, raised, silent, hist_gate, outside_pipeline, in_flight>>
    /\ NotifierUnchanged

\* Variant: the handler has no enclosing loop and returns after its first flush.
GateTaskFlushDone_returns ==
    /\ gate_task = "flushing"
    /\ flush_idx = Len(flush_list)
    /\ frames_buffer' = <<>>
    /\ gate_task' = "done"
    /\ flush_list' = <<>>
    /\ flush_idx' = 0
    /\ flush_same' = FALSE
    /\ last' = Call("task", Frame("none"), DOWNSTREAM)
    /\ out' = <<>>
    /\ UNCHANGED <<gate_open, sink, next_id, end_sent, raised, silent, hist_gate, outside_pipeline, in_flight>>
    /\ NotifierUnchanged

\* line 343: the for statement is exhausted, self._frames_buffer = [], and the
\* task is back in wait().
GateTaskFlushDone ==
    /\ gate_task = "flushing"
    /\ flush_idx = Len(flush_list)
    /\ frames_buffer' = <<>>
    /\ gate_task' = "waiting"
    /\ flush_list' = <<>>
    /\ flush_idx' = 0
    /\ flush_same' = FALSE
    /\ last' = Call("task", Frame("none"), DOWNSTREAM)
    /\ out' = <<>>
    /\ UNCHANGED <<gate_open, sink, next_id, end_sent, raised, silent, hist_gate, outside_pipeline, in_flight>>
    /\ NotifierUnchanged

GateTask == GateTaskWake \/ GateTaskPush \/ GateTaskFlushDone

\* ---------------------------------------------------------------- conversation context
\* A text is a sequence of characters; a message content is a str or a list of
\* typed parts, of which only the "text" parts carry a text.
Str(t) == [kind |-> "str", text |-> t, parts |-> <<>>]
List(ps) == [kind |-> "list", text |-> <<>>, parts |-> ps]
TextPart(t) == [type |-> "text", text |-> t]
ImagePart == [type |-> "image_url", text |-> <<>>]
Message(r, c) == [role |-> r, content |-> c]
None == [role |-> "None", content |-> Str(<<>>)]

classifier_statement == Str(<<"classifier_statement">>)

ContextFrame(msgs) ==
    [type |-> "OpenAILLMContextFrame", id |-> 0, text |-> "", messages |-> msgs]
LLMMessagesFrame(msgs) ==
    [type |-> "LLMMessagesFrame", id |-> 0, text |-> "", messages |-> msgs]

ReverseSeq(s) == [i \in 1..Len(s) |-> s[Len(s) + 1 - i]]

\* " ".join(texts)
RECURSIVE Join(_)
Join(texts) ==
    IF texts = <<>> THEN <<>>
    ELSE IF Len(texts) = 1 THEN texts[1]
    ELSE texts[1] \o <<" ">> \o Join(Tail(texts))

\* lines 253-255: for content in message["content"]: if content["type"] ==
\* "text": user_text_messages.insert(0, content["text"])
RECURSIVE InsertParts(_, _)
InsertParts(parts, user_text_messages) ==
    IF parts = <<>> THEN user_text_messages
    ELSE InsertParts(Tail(parts),
                     IF parts[1].type = "text"
                     THEN <<parts[1].text>> \o user_text_messages
                     ELSE user_text_messages)

\* lines 243-255: the walk over reversed(messages); i is the index of the
\* message the loop is at, utm the list user_text_messages built so far.
RECURSIVE WalkMessages(_, _, _)
WalkMessages(messages, i, utm) ==
    IF i = 0 THEN [user_text_messages |-> utm, last_assistant_message |-> None]
    ELSE IF messages[i].role # "user"
         THEN [user_text_messages |-> utm,
               last_assistant_message |->
                   IF messages[i].role = "assistant" THEN messages[i] ELSE None]
         ELSE WalkMessages(messages, i - 1,
                  IF messages[i].content.kind = "str"
                  THEN Append(utm, messages[i].content.text)
                  ELSE InsertParts(messages[i].content.parts, utm))

\* Variant: the walk reverses the list in place (messages.reverse()).
ContextAfterWalk_reversed(messages) == ReverseSeq(messages)

\* lines 240-255: what the walk leaves in frame.context.messages. It iterates
\* reversed(messages) and reads message["role"] and message["content"]; it
\* assigns to nothing but its own locals.
ContextAfterWalk(messages) == messages

\* The frame object after the call: a context frame refers to the shared
\* context, every other frame is left alone.
FrameAfter(frame) ==
    IF frame.type = "OpenAILLMContextFrame"
    THEN [frame EXCEPT !.messages = ContextAfterWalk(frame.messages)]
    ELSE frame

\* Variant: a request is pushed for every context, with or without user text.
JudgeRequest_always(messages) ==
    LET w == WalkMessages(messages, Len(messages), <<>>)
        user_message == Join(ReverseSeq(w.user_text_messages))
    IN <<Push(LLMMessagesFrame(
                <<Message("system", classifier_statement)>>
                \o (IF w.last_assistant_message # None
                    THEN <<w.last_assistant_message>> ELSE <<>>)
                \o <<Message("user", Str(user_message))>>),
              DOWNSTREAM)>>

\* lines 256-269: the frames the filter pushes for a context: one
\* LLMMessagesFrame if user_text_messages is not empty, nothing otherwise.
JudgeRequest(messages) ==
    LET w == WalkMessages(messages, Len(messages), <<>>)
        user_message == Join(ReverseSeq(w.user_text_messages))
    IN IF w.user_text_messages = <<>> THEN <<>>
       ELSE <<Push(LLMMessagesFrame(
                     <<Message("system", classifier_statement)>>
                     \o (IF w.last_assistant_message # None
                         THEN <<w.last_assistant_message>> ELSE <<>>)
                     \o <<Message("user", Str(user_message))>>),
                   DOWNSTREAM)>>

\* Variant: an LLMMessagesFrame fires the notifier and is also passed on.
StatementJudgeContextFilter_process_frame_passes(frame, direction) ==
    /\ last' = Call("filter", FrameAfter(frame), direction)
    /\ IF IsSystemFrame(frame)
       THEN out' = <<Push(frame, direction)>> /\ NotifierUnchanged
       ELSE IF frame.type = "LLMMessagesFrame"
            THEN out' = <<NotifyEff, Push(frame, direction)>> /\ NotifierNotify
            ELSE IF frame.type = "OpenAILLMContextFrame"
                 THEN out' = JudgeRequest(frame.messages) /\ NotifierUnchanged
                 ELSE out' = <<>> /\ NotifierUnchanged
    /\ UNCHANGED <<gate_vars, sink, next_id, end_sent, raised, silent, hist_gate, outside_pipeline>>

\* ---------------------------------------------------------------- StatementJudgeContextFilter
StatementJudgeContextFilter_process_frame(frame, direction) ==
    /\ last' = Call("filter", FrameAfter(frame), direction)
    /\ IF IsSystemFrame(frame)
       THEN out' = <<Push(frame, direction)>> /\ NotifierUnchanged
       ELSE IF frame.type = "LLMMessagesFrame"
            THEN out' = <<NotifyEff>> /\ NotifierNotify
            ELSE IF frame.type = "OpenAILLMContextFrame"
                 THEN out' = JudgeRequest(frame.messages) /\ NotifierUnchanged
                 ELSE out' = <<>> /\ NotifierUnchanged
    /\ UNCHANGED <<gate_vars, sink, next_id, end_sent, raised, silent, hist_gate, outside_pipeline>>

\* ---------------------------------------------------------------- CompletenessCheck
\* Variant: the text is compared whatever the class of the frame.
IsVerdict_any_frame(frame, verdict) == frame.text = verdict

\* isinstance(frame, TextFrame) and frame.text == verdict
IsVerdict(frame, verdict) == frame.type = "TextFrame" /\ frame.text = verdict

\* Variant: the notifier is fired before the UserStoppedSpeakingFrame is pushed.
YesEffects_notify_first ==
    <<NotifyEff, Push(Frame("UserStoppedSpeakingFrame"), DOWNSTREAM)>>

\* lines 282-283: push_frame(UserStoppedSpeakingFrame()), then notify().
YesEffects ==
    <<Push(Frame("UserStoppedSpeakingFrame"), DOWNSTREAM), NotifyEff>>

\* Variant: a "NO" fires the notifier.
NoEffects_notify == <<NotifyEff>>

\* lines 284-285: a "NO" is logged and nothing else.
NoEffects == <<>>

CompletenessCheck_process_frame(frame, direction) ==
    /\ last' = Call("check", frame, direction)
    /\ out' = IF IsVerdict(frame, "YES") THEN YesEffects
              ELSE IF IsVerdict(frame, "NO") THEN NoEffects
              ELSE <<Push(frame, direction)>>
    /\ IF \E i \in 1..Len(out') : out'[i] = NotifyEff
       THEN NotifierNotify ELSE NotifierUnchanged
    /\ UNCHANGED <<gate_vars, sink, next_id, end_sent, raised, silent, hist_gate, outside_pipeline>>

\* ---------------------------------------------------------------- idle fallback
\* run_bot's user_idle_notifier(frame), the callback of the idle timer.
user_idle_notifier ==
    /\ last' = Call("idle", Frame("none"), DOWNSTREAM)
    /\ out' = <<NotifyEff>>
    /\ NotifierNotify
    /\ UNCHANGED <<gate_vars, sink, next_id, end_sent, raised, silent, hist_gate, outside_pipeline, in_flight>>

\* ---------------------------------------------------------------- inputs
Texts == {<<"a">>, <<"b">>}
Contents ==
    {Str(t) : t \in Texts \cup {<<>>}}
    \cup {List(<<TextPart(t)>>) : t \in Texts}
    \cup {List(<<TextPart(<<"a">>), TextPart(<<"b">>)>>),
          List(<<ImagePart, TextPart(<<"a">>)>>),
          List(<<ImagePart>>), List(<<>>)}
Roles == {"system", "user", "assistant"}
Messages == {Message(r, c) : r \in Roles, c \in Contents}

RECURSIVE SeqsUpTo(_, _)
SeqsUpTo(S, n) ==
    IF n = 0 THEN {<<>>}
    ELSE LET shorter == SeqsUpTo(S, n - 1)
         IN shorter \cup {Append(s, x) : s \in {t \in shorter : Len(t) = n - 1}, x \in S}

Contexts == SeqsUpTo(Messages, MaxMsgs)

\* The contexts of the end-to-end scenarios: a user turn after the system
\* prompt, a user turn in two multi-part messages, and the initial context
\* with no user turn.
ScenarioContexts ==
    {<<Message("system", Str(<<"a">>)), Message("user", Str(<<"b">>))>>,
     <<Message("user", List(<<TextPart(<<"a">>)>>)), Message("user", List(<<TextPart(<<"b">>)>>))>>,
     <<Message("system", Str(<<"a">>))>>}

ControlFrames == {Frame(t) : t \in {"StartFrame", "EndFrame", "CancelFrame",
                                     "StartInterruptionFrame", "StopInterruptionFrame"}}
OtherFrames == {TextFrame("data"), Frame("TranscriptionFrame")}
FilterFrames(contexts) ==
    ControlFrames \cup OtherFrames \cup {LLMMessagesFrame(<<>>)}
    \cup {ContextFrame(c) : c \in contexts}
\* What reaches the two stages of the classifier branch in a session: context
\* updates and message lists from the user aggregator, verdicts from the
\* classifier LLM.
FilterStep ==
    /\ \E frame \in {LLMMessagesFrame(<<>>)} \cup {ContextFrame(c) : c \in ScenarioContexts} :
           StatementJudgeContextFilter_process_frame(frame, DOWNSTREAM)
    /\ UNCHANGED in_flight

CheckStep ==
    /\ \E v \in {"YES", "NO", "maybe"} :
           CompletenessCheck_process_frame(TextFrame(v), DOWNSTREAM)
    /\ UNCHANGED in_flight

\* ---------------------------------------------------------------- frames reaching the gate
\* The StartFrame of the session (the pipeline delivers exactly one).
GateStart ==
    /\ gate_task = "none"
    /\ OutputGate_process_frame(Frame("StartFrame"), DOWNSTREAM)
    /\ UNCHANGED <<next_id, end_sent, in_flight>>

GateCancel ==
    /\ OutputGate_process_frame(Frame("CancelFrame"), DOWNSTREAM)
    /\ UNCHANGED <<next_id, end_sent, in_flight>>

\* The EndFrame of the session (at most one).
GateEnd ==
    /\ ~end_sent
    /\ end_sent' = TRUE
    /\ OutputGate_process_frame(Frame("EndFrame"), DOWNSTREAM)
    /\ UNCHANGED <<next_id, in_flight>>

GateInterruption ==
    /\ \E t \in {"StartInterruptionFrame", "StopInterruptionFrame"} :
           OutputGate_process_frame(Frame(t), DOWNSTREAM)
    /\ UNCHANGED <<next_id, end_sent, in_flight>>

\* A speculative output frame of the response LLM; none follows the EndFrame.
GateData ==
    /\ next_id <= MaxFrames
    /\ ~end_sent
    /\ next_id' = next_id + 1
    /\ OutputGate_process_frame(DataFrame(next_id), DOWNSTREAM)
    /\ UNCHANGED <<end_sent, in_flight>>

\* A non-system frame travelling upstream.
GateUpstream ==
    /\ OutputGate_process_frame(DataFrame(0), UPSTREAM)
    /\ UNCHANGED <<next_id, end_sent, in_flight>>

Next ==
    \/ GateStart
    \/ GateCancel
    \/ GateEnd
    \/ GateInterruption
    \/ GateData
    \/ GateUpstream
    \/ GateTaskWake
    \/ GateTaskPush
    \/ GateTaskFlushDone
    \/ FilterStep
    \/ CheckStep
    \/ user_idle_notifier

Spec == Init /\ [][Next]_vars

\* ---------------------------------------------------------------- the gate and its notifier
\* The gate with everything that reaches it and every verdict of the
\* classifier, under the event loop's scheduling: a task that is ready to run
\* is eventually run.
SignalNext ==
    \/ GateStart
    \/ GateCancel
    \/ GateEnd
    \/ GateInterruption
    \/ GateData
    \/ GateTaskWake
    \/ GateTaskPush
    \/ GateTaskFlushDone
    \/ CheckStep
    \/ user_idle_notifier

SignalSpec == Init /\ [][SignalNext]_vars /\ WF_vars(GateTask)

\* ---------------------------------------------------------------- the filter alone
\* One call of the filter on every frame and direction, over every context of
\* up to MaxMsgs messages.
FilterInit ==
    \E frame \in FilterFrames(Contexts) \cup {LLMMessagesFrame(c) : c \in Contexts},
       direction \in Directions :
        InitWith(FALSE, Call("input", frame, direction))

FilterApply ==
    /\ last.op = "input"
    /\ StatementJudgeContextFilter_process_frame(last.frame, last.dir)
    /\ UNCHANGED in_flight

FilterNext == FilterApply
FilterSpec == FilterInit /\ [][FilterNext]_vars

\* ---------------------------------------------------------------- the check alone
\* One call of the check on every frame and direction: verdict texts and their
\* near misses, frames of other classes that carry a text, control frames and
\* frames without a text.
VerdictTexts == {"YES", "NO", "yes", "no", "Yes", "YES ", " YES", "NO ", "YES.", "maybe", ""}
SpokenFrame(s) == [type |-> "TTSSpeakFrame", id |-> 0, text |-> s]
CheckFrames ==
    {TextFrame(v) : v \in VerdictTexts}
    \cup {SpokenFrame("YES"), SpokenFrame("NO")}
    \cup ControlFrames \cup {Frame("UserStoppedSpeakingFrame"), Frame("LLMFullResponseEndFrame")}

CheckInit ==
    \E frame \in CheckFrames, direction \in Directions, start_open \in BOOLEAN :
        InitWith(start_open, Call("input", frame, direction))

CheckApply ==
    /\ last.op = "input"
    /\ CompletenessCheck_process_frame(last.frame, last.dir)
    /\ UNCHANGED in_flight

CheckNext == CheckApply
CheckSpec == CheckInit /\ [][CheckNext]_vars

\* ---------------------------------------------------------------- the session that falls silent
\* A session in which, from some point on, the user stays silent and the
\* classifier never answers: no interruption frame and no verdict arrives any
\* more; the speculative branch, the idle timer, the flush loop and the
\* teardown go on. The idle timer expires when nothing restarts it.
GoSilent ==
    /\ ~silent
    /\ silent' = TRUE
    /\ UNCHANGED <<pending, gate_vars, sink, next_id, end_sent, raised, last, out,
                   hist_gate, notified, outside_pipeline, in_flight>>

UserActivity == ~silent /\ GateInterruption
Verdict == ~silent /\ CheckStep

IdleNext ==
    \/ GateStart
    \/ GateCancel
    \/ GateEnd
    \/ GateData
    \/ GateTaskWake
    \/ GateTaskPush
    \/ GateTaskFlushDone
    \/ UserActivity
    \/ Verdict
    \/ GoSilent
    \/ user_idle_notifier

IdleSpec == Init /\ [][IdleNext]_vars /\ WF_vars(GateTask) /\ WF_vars(user_idle_notifier)

\* ---------------------------------------------------------------- turns and their verdicts
\* A session in which every verdict answers a classification request: the
\* filter turns a context update into a request, the classifier LLM answers
\* it some time later, and an interruption-begin in between makes the request
\* one of the interrupted turn. Neither the filter nor the check keeps track
\* of this; in_flight is what an observer knows.
TurnRequest ==
    /\ \E c \in {x \in ScenarioContexts : JudgeRequest(x) # <<>>} :
           StatementJudgeContextFilter_process_frame(ContextFrame(c), DOWNSTREAM)
    /\ in_flight' = "current"

TurnInterruption ==
    /\ OutputGate_process_frame(Frame("StartInterruptionFrame"), DOWNSTREAM)
    /\ UNCHANGED <<next_id, end_sent>>
    /\ in_flight' = IF in_flight = "none" THEN "none" ELSE "stale"

TurnVerdict ==
    /\ in_flight # "none"
    /\ \E v \in {"YES", "NO"} : CompletenessCheck_process_frame(TextFrame(v), DOWNSTREAM)
    /\ in_flight' = "none"

TurnNext ==
    \/ GateStart
    \/ GateData
    \/ GateTaskWake
    \/ GateTaskPush
    \/ GateTaskFlushDone
    \/ TurnRequest
    \/ TurnInterruption
    \/ TurnVerdict

TurnSpec == Init /\ [][TurnNext]_vars

\* ---------------------------------------------------------------- WaitingServer
\* await asyncio.sleep(0.1): the clock moves on by one sleep. Past the largest
\* deadline every comparison with a deadline has the same outcome, so the
\* clock is not counted further.
Sleep(t) == IF t > MaxTimeout THEN t ELSE t + 1

\* shutdown(), lines 33-45: the deadline is fixed from the configured timeout,
\* then the servers and sockets are closed and their closing is awaited.
shutdown_close ==
    /\ server_pc = "serving"
    /\ should_exit_deadline' = IF should_exit_timeout # NoTimeout
                               THEN now + should_exit_timeout ELSE NoTimeout
    /\ server_pc' = "connections"
    /\ UNCHANGED <<should_exit_timeout, now, connections, tasks, force_exit, lifespan_down>>
    /\ UNCHANGED outside_server

\* lines 48-56: one test of the wait for connections; it sleeps while there are
\* connections, no forced exit and the deadline, if any, has not passed.
shutdown_wait_connections ==
    /\ server_pc = "connections"
    /\ IF /\ connections > 0
          /\ ~force_exit
          /\ (should_exit_deadline = NoTimeout \/ now < should_exit_deadline)
       THEN now' = Sleep(now) /\ UNCHANGED server_pc
       ELSE server_pc' = "tasks" /\ UNCHANGED now
    /\ UNCHANGED <<should_exit_timeout, should_exit_deadline, connections, tasks,
                   force_exit, lifespan_down>>
    /\ UNCHANGED outside_server

\* lines 59-63: one test of the wait for background tasks; it sleeps while
\* there are tasks and no forced exit.
shutdown_wait_tasks ==
    /\ server_pc = "tasks"
    /\ IF tasks > 0 /\ ~force_exit
       THEN now' = Sleep(now) /\ UNCHANGED server_pc
       ELSE server_pc' = "lifespan" /\ UNCHANGED now
    /\ UNCHANGED <<should_exit_timeout, should_exit_deadline, connections, tasks,
                   force_exit, lifespan_down>>
    /\ UNCHANGED outside_server

\* Variant: the lifespan shutdown event is sent whether or not the exit is forced.
shutdown_lifespan_always ==
    /\ server_pc = "lifespan"
    /\ lifespan_down' = TRUE
    /\ server_pc' = "exited"
    /\ UNCHANGED <<should_exit_timeout, should_exit_deadline, now, connections, tasks,
                   force_exit>>
    /\ UNCHANGED outside_server

\* lines 66-67: the lifespan shutdown event, unless the exit is forced; then
\* shutdown() returns.
shutdown_lifespan ==
    /\ server_pc = "lifespan"
    /\ lifespan_down' = ~force_exit
    /\ server_pc' = "exited"
    /\ UNCHANGED <<should_exit_timeout, should_exit_deadline, now, connections, tasks,
                   force_exit>>
    /\ UNCHANGED outside_server

shutdown == shutdown_close \/ shutdown_wait_connections \/ shutdown_wait_tasks
                \/ shutdown_lifespan

\* What the rest of the server does while shutdown() sleeps: a connection
\* closes, a background task finishes, a second signal forces the exit (it may
\* come before the main loop has called shutdown()).
ConnectionCloses ==
    /\ connections > 0
    /\ connections' = connections - 1
    /\ UNCHANGED <<server_pc, should_exit_timeout, should_exit_deadline, now, tasks,
                   force_exit, lifespan_down>>
    /\ UNCHANGED outside_server

TaskCompletes ==
    /\ tasks > 0
    /\ tasks' = tasks - 1
    /\ UNCHANGED <<server_pc, should_exit_timeout, should_exit_deadline, now, connections,
                   force_exit, lifespan_down>>
    /\ UNCHANGED outside_server

ForceExit ==
    /\ server_pc \in {"serving", "connections", "tasks", "lifespan"}
    /\ ~force_exit
    /\ force_exit' = TRUE
    /\ UNCHANGED <<server_pc, should_exit_timeout, should_exit_deadline, now, connections,
                   tasks, lifespan_down>>
    /\ UNCHANGED outside_server

\* A shutdown with every configuration of the timeout and up to MaxOpen open
\* connections and background tasks; the event loop runs shutdown() whenever
\* it can go on, and nothing obliges a connection or a task to end.
ServerInit ==
    \E timeout \in {NoTimeout} \cup 0..MaxTimeout, conns \in 0..MaxOpen, bg \in 0..MaxOpen :
        /\ PipelineInitWith(TRUE, Call("init", Frame("none"), DOWNSTREAM))
        /\ ServerInitWith(timeout, conns, bg)
        /\ RestInit

ServerNext ==
    \/ shutdown_close
    \/ shutdown_wait_connections
    \/ shutdown_wait_tasks
    \/ shutdown_lifespan
    \/ ConnectionCloses
    \/ TaskCompletes
    \/ ForceExit

ServerSpec == ServerInit /\ [][ServerNext]_vars /\ WF_vars(shutdown)

\* ---------------------------------------------------------------- DialOutHandler
\* A dial-out setting is a dict; what start_dialout looks at is which of the
\* keys "phoneNumber", "callerId" and "sipUri" it has.
Setting(keys) == [keys |-> keys]
SettingKinds ==
    {Setting({"phoneNumber"}), Setting({"phoneNumber", "callerId"}),
     Setting({"sipUri"}), Setting({"callerId"})}

\* lines 145-162: the transport.start_dialout argument for a setting, or
\* NoDial for a setting with neither a phoneNumber nor a sipUri.
NoDial == {}
DialArgs(setting) ==
    IF "phoneNumber" \in setting.keys
    THEN (IF "callerId" \in setting.keys THEN {"phoneNumber", "callerId"}
          ELSE {"phoneNumber"})
    ELSE IF "sipUri" \in setting.keys THEN {"sipUri"} ELSE NoDial

\* Variant: the handler never gives up.
GivesUp_never(count, max) == FALSE

\* line 138: self.dialout_attempt_count > self.max_attempts
GivesUp(count, max) == count > max

\* DialOutHandler.__init__
DialOutHandler_init(settings, max) ==
    dialout = [constructed |-> TRUE,
               dialout_settings |-> settings,
               max_attempts |-> max,
               dialout_attempt_count |-> 0,
               rounds |-> <<>>,
               refused |-> 0]

\* start_dialout(), lines 136-142: the attempt is counted; past max_attempts
\* the call returns, otherwise a round over dialout_settings begins. A round
\* is [pos, dialed]: the index of the setting the for statement is at and the
\* transport.start_dialout calls it has made, in order.
DialOutHandler_start_dialout ==
    /\ dialout.constructed
    /\ dialout.refused < MaxRefused
    /\ LET count == dialout.dialout_attempt_count + 1
       IN dialout' =
            IF GivesUp(count, dialout.max_attempts)
            THEN [dialout EXCEPT !.dialout_attempt_count = count,
                                 !.refused = @ + 1]
            ELSE [dialout EXCEPT !.dialout_attempt_count = count,
                                 !.rounds = Append(@, [pos |-> 1, dialed |-> <<>>])]
    /\ UNCHANGED outside_dialout

\* on_call_state_updated(transport, "joined") with dial-out settings present.
on_call_state_updated == DialOutHandler_start_dialout

\* on_dialout_error(transport, data)
on_dialout_error ==
    /\ dialout.constructed
    /\ dialout.rounds # <<>>
    /\ DialOutHandler_start_dialout

\* lines 144-162: one turn of a round's for statement; a dial is an await, at
\* which the other rounds and the event handlers may run.
DialOutHandler_dial ==
    /\ dialout.constructed
    /\ \E r \in 1..Len(dialout.rounds) :
        LET round == dialout.rounds[r]
        IN /\ round.pos <= Len(dialout.dialout_settings)
           /\ LET args == DialArgs(dialout.dialout_settings[round.pos])
              IN dialout' = [dialout EXCEPT !.rounds[r] =
                    [pos |-> round.pos + 1,
                     dialed |-> IF args = NoDial THEN round.dialed
                                ELSE Append(round.dialed, args)]]
    /\ UNCHANGED outside_dialout

DialOutInit ==
    /\ PipelineInitWith(TRUE, Call("init", Frame("none"), DOWNSTREAM))
    /\ ServerInitWith(NoTimeout, 0, 0)
    /\ in_flight = "none"
    /\ lifespan = [constructed |-> FALSE]
    /\ bot_session = [constructed |-> FALSE]
    /\ mock_cloud = [constructed |-> FALSE]
    /\ feature_manager = [constructed |-> FALSE]
    /\ voicemail = [constructed |-> FALSE]
    /\ webhook = [constructed |-> FALSE]
    /\ \E settings \in SeqsUpTo(SettingKinds, MaxSettings) \ {<<>>}, max \in 0..MaxAttempts :
           DialOutHandler_init(settings, max)

DialOutNext ==
    \/ on_call_state_updated
    \/ on_dialout_error
    \/ DialOutHandler_dial

DialOutSpec == DialOutInit /\ [][DialOutNext]_vars

\* ---------------------------------------------------------------- FeatureManager
FeatureKeys ==
    {"DAILY_TRANSPORT", "WEBSOCKET_TRANSPORT", "SMALL_WEBRTC_SESSION",
     "SMALLWEBRTC_TRANSPORT", "SMALLWEBRTC_PATCH", "WHATSAPP"}
FeatureStatus == {"ENABLED", "DISABLED", "ERROR", "MISSING_CONFIG"}

\* What an import under a try can do: succeed, raise ImportError, or raise
\* something else.
ImportOutcomes == {"ok", "ImportError", "Exception"}
required_env_vars == {"WHATSAPP_TOKEN", "WHATSAPP_PHONE_NUMBER_ID", "WHATSAPP_APP_SECRET"}

\* The outcomes of the capability probes, fixed by the installed packages and
\* the environment: the four import groups, whether WhatsAppClient takes
\* whatsapp_secret, and the environment variables that are set and non-empty.
Probes ==
    [session : ImportOutcomes, transport : ImportOutcomes, patch : ImportOutcomes,
     whatsapp : ImportOutcomes, whatsapp_secret : BOOLEAN,
     environ : SUBSET required_env_vars]

\* self.features[feature_key] = self._create_feature_info(..., status=status)
SetFeature(features, key, status) ==
    [k \in DOMAIN features \cup {key} |-> IF k = key THEN status ELSE features[k]]

\* is_enabled(feature)
is_enabled(features, key) ==
    key \in DOMAIN features /\ features[key] = "ENABLED"

\* A detection step leaves the features it has set and says whether an
\* exception left it.
Done(features) == [features |-> features, raised |-> FALSE]
Raised(features) == [features |-> features, raised |-> TRUE]

create_default_features(features) ==
    SetFeature(SetFeature(features, "DAILY_TRANSPORT", "ENABLED"),
               "WEBSOCKET_TRANSPORT", "ENABLED")

\* Only ImportError is caught.
detect_pipecatcloud_features(features, probes) ==
    CASE probes.session = "ok" -> Done(SetFeature(features, "SMALL_WEBRTC_SESSION", "ENABLED"))
      [] probes.session = "ImportError" ->
            Done(SetFeature(features, "SMALL_WEBRTC_SESSION", "DISABLED"))
      [] OTHER -> Raised(features)

detect_smallwebrtc_transport(features, probes) ==
    SetFeature(features, "SMALLWEBRTC_TRANSPORT",
               CASE probes.transport = "ok" -> "ENABLED"
                 [] probes.transport = "ImportError" -> "DISABLED"
                 [] OTHER -> "ERROR")

\* Only ImportError is caught.
detect_smallwebrtc_patch(features, probes) ==
    CASE probes.patch = "ok" -> Done(SetFeature(features, "SMALLWEBRTC_PATCH", "ENABLED"))
      [] probes.patch = "ImportError" ->
            Done(SetFeature(features, "SMALLWEBRTC_PATCH", "DISABLED"))
      [] OTHER -> Raised(features)

detect_whatsapp_features(features, probes) ==
    SetFeature(features, "WHATSAPP",
               CASE probes.whatsapp = "ImportError" -> "DISABLED"
                 [] probes.whatsapp = "Exception" -> "ERROR"
                 [] ~probes.whatsapp_secret -> "ERROR"
                 [] required_env_vars \ probes.environ # {} -> "MISSING_CONFIG"
                 [] OTHER -> "ENABLED")

create_disabled_smallwebrtc_features(features) ==
    SetFeature(features, "SMALLWEBRTC_TRANSPORT", "DISABLED")
create_disabled_smallwebrtc_patch_features(features) ==
    SetFeature(features, "SMALLWEBRTC_PATCH", "DISABLED")
create_disabled_whatsapp_feature(features) ==
    SetFeature(features, "WHATSAPP", "DISABLED")

\* Variant: the patch and WhatsApp probes run whatever the transport probe found.
detect_smallwebrtc_features_unchained(features, probes) ==
    IF ~is_enabled(features, "SMALL_WEBRTC_SESSION")
    THEN Done(create_disabled_whatsapp_feature(
                create_disabled_smallwebrtc_patch_features(
                  create_disabled_smallwebrtc_features(features))))
    ELSE LET transport == detect_smallwebrtc_transport(features, probes)
             patch == detect_smallwebrtc_patch(transport, probes)
         IN IF patch.raised THEN patch
            ELSE Done(detect_whatsapp_features(patch.features, probes))

detect_smallwebrtc_features(features, probes) ==
    IF ~is_enabled(features, "SMALL_WEBRTC_SESSION")
    THEN Done(create_disabled_whatsapp_feature(
                create_disabled_smallwebrtc_patch_features(
                  create_disabled_smallwebrtc_features(features))))
    ELSE LET transport == detect_smallwebrtc_transport(features, probes)
         IN IF ~is_enabled(transport, "SMALLWEBRTC_TRANSPORT")
            THEN Done(create_disabled_whatsapp_feature(
                        create_disabled_smallwebrtc_patch_features(transport)))
            ELSE LET patch == detect_smallwebrtc_patch(transport, probes)
                 IN IF patch.raised THEN patch
                    ELSE Done(detect_whatsapp_features(patch.features, probes))

detect_features(features, probes) ==
    LET session == detect_pipecatcloud_features(features, probes)
    IN IF session.raised THEN session
       ELSE detect_smallwebrtc_features(session.features, probes)

\* FeatureManager(): an exception that leaves __init__ leaves no object.
FeatureManager_init ==
    /\ ~feature_manager.constructed
    /\ ~feature_manager.raised
    /\ LET result == detect_features(create_default_features(<<>>), feature_manager.probes)
       IN feature_manager' =
            [feature_manager EXCEPT !.constructed = ~result.raised,
                                    !.raised = result.raised,
                                    !.features = result.features]
    /\ UNCHANGED outside_features

\* feature_manager.is_enabled(key), as the routes of the app ask it.
FeatureManager_is_enabled ==
    /\ feature_manager.constructed
    /\ \E key \in FeatureKeys :
          feature_manager' =
            [feature_manager EXCEPT !.asked =
                [key |-> key, enabled |-> is_enabled(feature_manager.features, key)]]
    /\ UNCHANGED outside_features

FeatureInit ==
    /\ PipelineInitWith(TRUE, Call("init", Frame("none"), DOWNSTREAM))
    /\ ServerInitWith(NoTimeout, 0, 0)
    /\ in_flight = "none"
    /\ lifespan = [constructed |-> FALSE]
    /\ bot_session = [constructed |-> FALSE]
    /\ mock_cloud = [constructed |-> FALSE]
    /\ dialout = [constructed |-> FALSE]
    /\ voicemail = [constructed |-> FALSE]
    /\ webhook = [constructed |-> FALSE]
    /\ \E probes \in Probes :
          feature_manager = [constructed |-> FALSE, raised |-> FALSE, probes |-> probes,
                             features |-> <<>>, asked |-> [key |-> "none", enabled |-> FALSE]]

FeatureNext ==
    \/ FeatureManager_init
    \/ FeatureManager_is_enabled

FeatureSpec == FeatureInit /\ [][FeatureNext]_vars

\* ---------------------------------------------------------------- voicemail-detection bot
\* A PipelineHandler: _is_running, whether task and runner are set, whether
\* task.cancel() has been called, the task frames the functions of its LLM
\* have sent upstream, and where its start() is: "none" (not called),
\* "running" (inside runner.run) or "finished" (returned).
PipelineHandler_init ==
    [is_running |-> FALSE, task |-> FALSE, runner |-> FALSE, cancelled |-> FALSE,
     frames |-> {}, run |-> "none"]

\* llm.push_frame / llm.queue_frame of a task frame, upstream, in the
\* pipelines that are inside their run.
PushUpstream(pipelines, frame) ==
    [name \in DOMAIN pipelines |->
        IF pipelines[name].run = "running"
        THEN [pipelines[name] EXCEPT !.frames = @ \cup {frame}]
        ELSE pipelines[name]]

\* create_task()
PipelineHandler_create_task(handler) == [handler EXCEPT !.task = TRUE]

\* start() up to its await of runner.run(task)
PipelineHandler_start(handler) ==
    [handler EXCEPT !.runner = TRUE, !.is_running = TRUE, !.run = "running"]

\* Variant: stop() cancels without looking at task and _is_running.
PipelineHandler_stop_always(handler) ==
    [handler EXCEPT !.cancelled = TRUE, !.is_running = FALSE]

\* stop(): cancels a task that is set and running; a task that is set but not
\* running is dropped.
PipelineHandler_stop(handler) ==
    IF handler.task /\ handler.is_running
    THEN [handler EXCEPT !.cancelled = TRUE, !.is_running = FALSE]
    ELSE IF ~handler.is_running /\ handler.task
    THEN [handler EXCEPT !.task = FALSE]
    ELSE handler

\* Variant: the second pipeline is started whatever the detection found.
HumanDetected_ignored(state) == TRUE

\* if call_flow_state.human_detected:
HumanDetected(state) == state.human_detected

\* main() up to its first await: the handlers are set up, the main pipeline's
\* task is created and its start() is scheduled and runs up to runner.run.
main_start ==
    /\ voicemail.constructed
    /\ voicemail.pc = "setup"
    /\ voicemail' =
         [voicemail EXCEPT
            !.pc = "await_main",
            !.pipelines = [name \in {"main"} |->
                             PipelineHandler_start(
                               PipelineHandler_create_task(PipelineHandler_init))]]
    /\ UNCHANGED outside_voicemail

\* runner.run(task) of a running pipeline returns or raises (the task ended,
\* was stopped, was cancelled or failed); start() ends through its finally.
PipelineHandler_start_returns ==
    /\ voicemail.constructed
    /\ \E name \in DOMAIN voicemail.pipelines :
         /\ voicemail.pipelines[name].run = "running"
         /\ voicemail' =
              [voicemail EXCEPT !.pipelines[name] =
                 [@ EXCEPT !.is_running = FALSE, !.task = FALSE, !.runner = FALSE,
                           !.run = "finished"]]
    /\ UNCHANGED outside_voicemail

\* VoicemailDetectionFunctionHandlers.human_conversation: the LLM of a running
\* pipeline calls switch_to_human_conversation, which is registered in
\* voicemail-detection mode only.
human_conversation ==
    /\ voicemail.constructed
    /\ voicemail.using_voicemail_detection
    /\ \E name \in DOMAIN voicemail.pipelines : voicemail.pipelines[name].run = "running"
    /\ voicemail' = [voicemail EXCEPT !.human_detected = TRUE,
                                      !.pipelines = PushUpstream(@, "StopTaskFrame")]
    /\ UNCHANGED outside_voicemail

\* terminate_call: registered in every mode.
terminate_call ==
    /\ voicemail.constructed
    /\ \E name \in DOMAIN voicemail.pipelines : voicemail.pipelines[name].run = "running"
    /\ voicemail' = [voicemail EXCEPT !.pipelines = PushUpstream(@, "EndTaskFrame")]
    /\ UNCHANGED outside_voicemail

\* on_call_state_updated("joined"): the dial-out, if any, begins.
on_joined ==
    /\ voicemail.constructed
    /\ voicemail.pc # "setup"
    /\ voicemail.call_state = "joining"
    /\ voicemail' = [voicemail EXCEPT !.call_state = "joined"]
    /\ UNCHANGED outside_voicemail

\* on_call_state_updated("left"), after which the call state is "left", and
\* on_participant_left, after which it still is "joined": every handler in
\* pipelines that is running is stopped.
on_left ==
    /\ voicemail.constructed
    /\ voicemail.call_state = "joined"
    /\ \E state \in {"joined", "left"} :
         voicemail' =
           [voicemail EXCEPT
              !.call_state = state,
              !.pipelines = [name \in DOMAIN @ |->
                               IF @[name].is_running THEN PipelineHandler_stop(@[name])
                               ELSE @[name]]]
    /\ UNCHANGED outside_voicemail

\* main() resumes from await main_pipeline_run_task.
main_after_main ==
    /\ voicemail.constructed
    /\ voicemail.pc = "await_main"
    /\ voicemail.pipelines["main"].run = "finished"
    /\ voicemail' =
         IF voicemail.using_voicemail_detection
         THEN IF HumanDetected(voicemail)
              THEN [voicemail EXCEPT
                      !.pc = "await_human",
                      !.pipelines =
                         [name \in {"main", "human_conversation"} |->
                            IF name = "main" THEN @["main"]
                            ELSE PipelineHandler_start(
                                   PipelineHandler_create_task(PipelineHandler_init))]]
              ELSE [voicemail EXCEPT
                      !.pc = "done",
                      !.pipelines["main"] = PipelineHandler_stop(@)]
         ELSE [voicemail EXCEPT !.pc = "done"]
    /\ UNCHANGED outside_voicemail

\* main() resumes from await human_conversation_pipeline_handler.start().
main_after_human ==
    /\ voicemail.constructed
    /\ voicemail.pc = "await_human"
    /\ voicemail.pipelines["human_conversation"].run = "finished"
    /\ voicemail' = [voicemail EXCEPT !.pc = "done"]
    /\ UNCHANGED outside_voicemail

\* main(room_url, token, body): body either has voicemail_detection and
\* dialout_settings or does not.
VoicemailInit ==
    /\ PipelineInitWith(TRUE, Call("init", Frame("none"), DOWNSTREAM))
    /\ ServerInitWith(NoTimeout, 0, 0)
    /\ in_flight = "none"
    /\ lifespan = [constructed |-> FALSE]
    /\ bot_session = [constructed |-> FALSE]
    /\ mock_cloud = [constructed |-> FALSE]
    /\ dialout = [constructed |-> FALSE]
    /\ feature_manager = [constructed |-> FALSE]
    /\ webhook = [constructed |-> FALSE]
    /\ \E voicemail_detection \in BOOLEAN, dialout_settings \in BOOLEAN :
         voicemail = [constructed |-> TRUE,
                      pc |-> "setup",
                      voicemail_detection |-> voicemail_detection,
                      dialout_settings |-> dialout_settings,
                      using_voicemail_detection |-> voicemail_detection /\ dialout_settings,
                      human_detected |-> FALSE,
                      call_state |-> "joining",
                      pipelines |-> <<>>]

VoicemailNext ==
    \/ main_start
    \/ PipelineHandler_start_returns
    \/ human_conversation
    \/ terminate_call
    \/ on_joined
    \/ on_left
    \/ main_after_main
    \/ main_after_human

VoicemailSpec == VoicemailInit /\ [][VoicemailNext]_vars

\* ---------------------------------------------------------------- webhook verification
\* A query parameter, or the environment's token: a string, or None when it
\* is not there.
Missing == [present |-> FALSE, value |-> <<>>]
Param(chars) == [present |-> TRUE, value |-> chars]

\* The characters a hub.challenge is written in here: digits, a letter, a
\* blank, a sign and an underscore.
ChallengeChars == {"0", "7", "a", " ", "-", "_"}
Digits == {"0", "7"}
DigitValue(c) == IF c = "7" THEN 7 ELSE 0

\* str.strip() of blanks
RECURSIVE StripLeft(_)
StripLeft(chars) ==
    IF chars # <<>> /\ Head(chars) = " " THEN StripLeft(Tail(chars)) ELSE chars
RECURSIVE StripRight(_)
StripRight(chars) ==
    IF chars # <<>> /\ chars[Len(chars)] = " "
    THEN StripRight(SubSeq(chars, 1, Len(chars) - 1)) ELSE chars

\* The digits of a decimal literal: digits, with single underscores between them.
IsDecimal(chars) ==
    /\ chars # <<>>
    /\ \A i \in 1..Len(chars) : chars[i] \in Digits \cup {"_"}
    /\ chars[1] \in Digits
    /\ chars[Len(chars)] \in Digits
    /\ \A i \in 1..(Len(chars) - 1) : ~(chars[i] = "_" /\ chars[i + 1] = "_")
RECURSIVE DecimalValue(_)
DecimalValue(chars) ==
    IF chars = <<>> THEN 0
    ELSE LET front == SubSeq(chars, 1, Len(chars) - 1)
             c == chars[Len(chars)]
         IN IF c = "_" THEN DecimalValue(front)
            ELSE 10 * DecimalValue(front) + DigitValue(c)

\* int(text): the blanks around are dropped, a sign may lead, and what is left
\* must be a decimal literal; anything else is a ValueError.
ParseInt(chars) ==
    LET text == StripRight(StripLeft(chars))
        negative == text # <<>> /\ text[1] = "-"
        digits == IF negative THEN Tail(text) ELSE text
    IN IF IsDecimal(digits)
       THEN [ok |-> TRUE,
             value |-> IF negative THEN 0 - DecimalValue(digits) ELSE DecimalValue(digits)]
       ELSE [ok |-> FALSE, value |-> 0]

\* Variant: the token is not compared.
VerificationFails_any_token(mode, challenge, token, expected_token) ==
    \/ mode # Param("subscribe")
    \/ challenge = Missing \/ challenge = Param(<<>>)

\* line 116: mode != "subscribe" or not challenge or token != expected_token
VerificationFails(mode, challenge, token, expected_token) ==
    \/ mode # Param("subscribe")
    \/ challenge = Missing \/ challenge = Param(<<>>)
    \/ token # expected_token

\* WhatsAppRequestHandler.handle_verify_webhook_request(params, expected_token)
handle_verify_webhook_request(params, expected_token) ==
    LET mode == params["hub.mode"]
        challenge == params["hub.challenge"]
        token == params["hub.verify_token"]
    IN IF VerificationFails(mode, challenge, token, expected_token)
       THEN [raised |-> "ValueError", value |-> 0]
       ELSE IF ParseInt(challenge.value).ok
       THEN [raised |-> "none", value |-> ParseInt(challenge.value).value]
       ELSE [raised |-> "ValueError", value |-> 0]

\* GET /whatsapp: the handler's result is the response; a ValueError is a 403.
verify_webhook ==
    /\ webhook.constructed
    /\ webhook.pc = "request"
    /\ LET result == handle_verify_webhook_request(webhook.params, webhook.expected_token)
       IN webhook' = [webhook EXCEPT
                        !.pc = "responded",
                        !.result = result,
                        !.status_code = IF result.raised = "ValueError" THEN 403 ELSE 200]
    /\ UNCHANGED outside_webhook

Modes == {Missing, Param("subscribe"), Param("unsubscribe")}
Tokens == {Missing, Param("secret"), Param("wrong")}
Challenges == {Missing} \cup {Param(chars) : chars \in SeqsUpTo(ChallengeChars, MaxChallenge)}

\* A verification request arrives; WHATSAPP_WEBHOOK_VERIFICATION_TOKEN is set
\* in the environment or is not.
WebhookInit ==
    /\ PipelineInitWith(TRUE, Call("init", Frame("none"), DOWNSTREAM))
    /\ ServerInitWith(NoTimeout, 0, 0)
    /\ in_flight = "none"
    /\ lifespan = [constructed |-> FALSE]
    /\ bot_session = [constructed |-> FALSE]
    /\ mock_cloud = [constructed |-> FALSE]
    /\ dialout = [constructed |-> FALSE]
    /\ feature_manager = [constructed |-> FALSE]
    /\ voicemail = [constructed |-> FALSE]
    /\ \E mode \in Modes, challenge \in Challenges, token \in Tokens,
          expected_token \in {Missing, Param("secret")} :
         webhook = [constructed |-> TRUE,
                    pc |-> "request",
                    expected_token |-> expected_token,
                    params |-> [k \in {"hub.mode", "hub.challenge", "hub.verify_token"} |->
                                  CASE k = "hub.mode" -> mode
                                    [] k = "hub.challenge" -> challenge
                                    [] OTHER -> token],
                    result |-> [raised |-> "none", value |-> 0],
                    status_code |-> 0]

WebhookNext == verify_webhook

WebhookSpec == WebhookInit /\ [][WebhookNext]_vars

\* ---------------------------------------------------------------- application lifespan
\* A lifespan context manager is one given to add_lifespan_to_app (named by a
\* number from 1), the one the router had before (named 0), or a
\* combined_lifespan closure over two of them.
ExistingLifespan == 0
NoLifespan == [kind |-> "None"]
Lifespan(name) == [kind |-> "lifespan", name |-> name]

\* Variant: the new lifespan is entered around the existing one.
combined_lifespan_new_outside(existing_lifespan, new_lifespan) ==
    [kind |-> "combined", outer |-> new_lifespan, inner |-> existing_lifespan]

\* lines 20-24: async with existing_lifespan(app): async with new_lifespan(app): yield
combined_lifespan(existing_lifespan, new_lifespan) ==
    [kind |-> "combined", outer |-> existing_lifespan, inner |-> new_lifespan]

\* The lifespans a context manager enters up to its yield, in order: an async
\* with enters its outer manager, then runs its body.
RECURSIVE EnterOrder(_)
EnterOrder(context) ==
    CASE context.kind = "None" -> <<>>
      [] context.kind = "lifespan" -> <<context.name>>
      [] OTHER -> EnterOrder(context.outer) \o EnterOrder(context.inner)

\* The lifespans it exits after its yield, in order: the body of an async with
\* ends before its manager exits.
RECURSIVE ExitOrder(_)
ExitOrder(context) ==
    CASE context.kind = "None" -> <<>>
      [] context.kind = "lifespan" -> <<context.name>>
      [] OTHER -> ExitOrder(context.inner) \o ExitOrder(context.outer)

\* add_lifespan_to_app(new_lifespan), called while the application is set up.
add_lifespan_to_app ==
    /\ lifespan.constructed
    /\ lifespan.phase = "setup"
    /\ Len(lifespan.registered) < MaxLifespans
    /\ \E name \in 1..MaxLifespans :
         /\ \A i \in 1..Len(lifespan.registered) : lifespan.registered[i] # name
         /\ lifespan' =
              [lifespan EXCEPT
                 !.registered = Append(@, name),
                 !.lifespan_context =
                    IF @ # NoLifespan THEN combined_lifespan(@, Lifespan(name))
                    ELSE Lifespan(name)]
    /\ UNCHANGED outside_lifespan

\* Application startup: the server enters app.router.lifespan_context, one
\* lifespan's startup at a time.
lifespan_startup ==
    /\ lifespan.constructed
    /\ lifespan.phase \in {"setup", "startup"}
    /\ LET order == EnterOrder(lifespan.lifespan_context)
       IN IF Len(lifespan.entered) < Len(order)
          THEN lifespan' = [lifespan EXCEPT
                              !.phase = "startup",
                              !.entered = Append(@, order[Len(@) + 1])]
          ELSE lifespan' = [lifespan EXCEPT !.phase = "running"]
    /\ UNCHANGED outside_lifespan

\* Application shutdown: the context manager is left, one lifespan's shutdown
\* at a time.
lifespan_shutdown ==
    /\ lifespan.constructed
    /\ lifespan.phase \in {"running", "shutdown"}
    /\ LET order == ExitOrder(lifespan.lifespan_context)
       IN IF Len(lifespan.exited) < Len(order)
          THEN lifespan' = [lifespan EXCEPT
                              !.phase = "shutdown",
                              !.exited = Append(@, order[Len(@) + 1])]
          ELSE lifespan' = [lifespan EXCEPT !.phase = "stopped"]
    /\ UNCHANGED outside_lifespan

\* app = FastAPI(): the router has its own lifespan context, or none.
LifespanInit ==
    /\ PipelineInitWith(TRUE, Call("init", Frame("none"), DOWNSTREAM))
    /\ ServerInitWith(NoTimeout, 0, 0)
    /\ in_flight = "none"
    /\ bot_session = [constructed |-> FALSE]
    /\ mock_cloud = [constructed |-> FALSE]
    /\ dialout = [constructed |-> FALSE]
    /\ feature_manager = [constructed |-> FALSE]
    /\ voicemail = [constructed |-> FALSE]
    /\ webhook = [constructed |-> FALSE]
    /\ \E context \in {NoLifespan, Lifespan(ExistingLifespan)} :
         lifespan = [constructed |-> TRUE,
                     phase |-> "setup",
                     preexisting |-> context,
                     lifespan_context |-> context,
                     registered |-> <<>>,
                     entered |-> <<>>,
                     exited |-> <<>>]

LifespanNext ==
    \/ add_lifespan_to_app
    \/ lifespan_startup
    \/ lifespan_shutdown

LifespanSpec == LifespanInit /\ [][LifespanNext]_vars

\* ---------------------------------------------------------------- mock cloud
\* wait_for_bot_start(session_id, max_wait_time=2, check_interval=0.5)
max_wait_time == 2

CallIds == 1..MaxCalls
\* A call of a webhook request: its id and its event.
CallEvents == {"connect", "terminate", "status"}
WebhookCalls == [id : CallIds, event : CallEvents]
\* The calls of a webhook request, over its entries and changes, in order.
WebhookRequests == SeqsUpTo(WebhookCalls, 2)

\* handle_webhook_request(request): the event of the first call that is a
\* connect or a terminate; ValueError when there is none.
RECURSIVE handle_webhook_request(_)
handle_webhook_request(calls) ==
    IF calls = <<>> THEN [raised |-> "ValueError", call_id |-> 0, event_type |-> "none"]
    ELSE IF Head(calls).event = "connect"
    THEN [raised |-> "none", call_id |-> Head(calls).id, event_type |-> "NEW_CALL"]
    ELSE IF Head(calls).event = "terminate"
    THEN [raised |-> "none", call_id |-> Head(calls).id, event_type |-> "TERMINATE_CALL"]
    ELSE handle_webhook_request(Tail(calls))

\* dict item assignment, pop and get on whatsapp_call_sessions
DictSet(d, key, value) ==
    [k \in DOMAIN d \cup {key} |-> IF k = key THEN value ELSE d[k]]
DictPop(d, key) == [k \in DOMAIN d \ {key} |-> d[k]]

Idle == [pc |-> "idle", event_type |-> "none", call_id |-> 0, session_id |-> 0,
         waited |-> 0, status_code |-> 0]

\* asyncio.create_task / background_tasks.add_task of call_bot_and_store: the
\* coroutine exists and has not run yet.
CreateBotTask(bots, session_id) ==
    [k \in DOMAIN bots \cup {session_id} |->
        IF k = session_id THEN [pc |-> "created", outcome |-> "none"] ELSE bots[k]]

\* start_agent: a fresh session id, and the bot call scheduled in the background.
start_agent ==
    /\ mock_cloud.constructed
    /\ mock_cloud.next_session <= MaxSessions
    /\ mock_cloud' = [mock_cloud EXCEPT
                        !.next_session = @ + 1,
                        !.bots = CreateBotTask(@, mock_cloud.next_session)]
    /\ UNCHANGED outside_mock_cloud

\* call_bot_and_store, lines 51-72: up to the POST to the bot, its first
\* suspension; the session is stored on the way.
call_bot_and_store_begin ==
    /\ mock_cloud.constructed
    /\ \E session_id \in DOMAIN mock_cloud.bots :
         /\ mock_cloud.bots[session_id].pc = "created"
         /\ mock_cloud' = [mock_cloud EXCEPT
                             !.active_sessions = @ \cup {session_id},
                             !.bots[session_id].pc = "posting"]
    /\ UNCHANGED outside_mock_cloud

\* call_bot_and_store, lines 72-77: the POST ends. With status 200 the body is
\* read and the session deleted; with another status HTTPException is raised;
\* or the request itself raises.
call_bot_and_store_end ==
    /\ mock_cloud.constructed
    /\ \E session_id \in DOMAIN mock_cloud.bots, outcome \in {"200", "500", "ClientError"} :
         /\ mock_cloud.bots[session_id].pc = "posting"
         /\ mock_cloud' = [mock_cloud EXCEPT
                             !.active_sessions =
                                IF outcome = "200" THEN @ \ {session_id} ELSE @,
                             !.bots[session_id] = [pc |-> "ended", outcome |-> outcome]]
    /\ UNCHANGED outside_mock_cloud

\* proxy_request: 404 for a session that active_sessions does not have,
\* otherwise the bot's own answer.
proxy_request ==
    /\ mock_cloud.constructed
    /\ \E session_id \in 1..MaxSessions, bot_status \in {200, 500} :
         mock_cloud' = [mock_cloud EXCEPT
                          !.proxy = [session_id |-> session_id,
                                     status_code |->
                                        IF session_id \notin mock_cloud.active_sessions
                                        THEN 404 ELSE bot_status]]
    /\ UNCHANGED outside_mock_cloud

\* whatsapp_webhook, lines 233-261, from the lookup of the session to the POST
\* that forwards the webhook: 404 without a mapping or without an active
\* session; a terminate drops the mapping.
LookupAndForward(cloud, event) ==
    IF event.call_id \notin DOMAIN cloud.whatsapp_call_sessions
    THEN [cloud EXCEPT !.req = [event EXCEPT !.pc = "done", !.status_code = 404]]
    ELSE LET session_id == cloud.whatsapp_call_sessions[event.call_id]
         IN IF session_id \notin cloud.active_sessions
            THEN [cloud EXCEPT !.req = [event EXCEPT !.pc = "done", !.status_code = 404,
                                                     !.session_id = session_id]]
            ELSE [cloud EXCEPT
                    !.whatsapp_call_sessions =
                       IF event.event_type = "TERMINATE_CALL"
                       THEN DictPop(@, event.call_id) ELSE @,
                    !.req = [event EXCEPT !.pc = "forwarding", !.session_id = session_id]]

\* whatsapp_webhook, lines 210-229: the request is parsed; a new call gets a
\* fresh session id, its mapping and its bot task, and the wait for the bot
\* begins (the task has not run yet, so the first test finds no session).
whatsapp_webhook ==
    /\ mock_cloud.constructed
    /\ mock_cloud.req.pc \in {"idle", "done"}
    /\ \E request \in WebhookRequests :
         LET call_event == handle_webhook_request(request)
             event == [Idle EXCEPT !.event_type = call_event.event_type,
                                   !.call_id = call_event.call_id]
         IN IF call_event.raised = "ValueError"
            THEN mock_cloud' = [mock_cloud EXCEPT
                                  !.req = [event EXCEPT !.pc = "done", !.status_code = 400]]
            ELSE IF call_event.event_type = "NEW_CALL"
            THEN /\ mock_cloud.next_session <= MaxSessions
                 /\ mock_cloud' =
                      [mock_cloud EXCEPT
                         !.next_session = @ + 1,
                         !.whatsapp_call_sessions =
                            DictSet(@, call_event.call_id, mock_cloud.next_session),
                         !.bots = CreateBotTask(@, mock_cloud.next_session),
                         !.req = [event EXCEPT !.pc = "waiting",
                                               !.session_id = mock_cloud.next_session]]
            ELSE mock_cloud' = LookupAndForward(mock_cloud, event)
    /\ UNCHANGED outside_mock_cloud

\* wait_for_bot_start, lines 88-98, after a sleep of check_interval (half a
\* second): the session is there, or another sleep, or the wait gives up and
\* the webhook raises RuntimeError.
wait_for_bot_start ==
    /\ mock_cloud.constructed
    /\ mock_cloud.req.pc = "waiting"
    /\ LET waited == mock_cloud.req.waited + 1
       IN mock_cloud' =
            IF mock_cloud.req.session_id \notin mock_cloud.active_sessions
               /\ waited < 2 * max_wait_time
            THEN [mock_cloud EXCEPT !.req.waited = waited]
            ELSE IF mock_cloud.req.session_id \in mock_cloud.active_sessions
            THEN LookupAndForward(mock_cloud, [mock_cloud.req EXCEPT !.waited = waited])
            ELSE [mock_cloud EXCEPT !.req.waited = waited, !.req.pc = "done",
                                    !.req.status_code = 500]
    /\ UNCHANGED outside_mock_cloud

\* whatsapp_webhook, lines 260-272: the forwarded POST ends with the bot's
\* status, or with a ClientError, answered 502.
whatsapp_webhook_forwarded ==
    /\ mock_cloud.constructed
    /\ mock_cloud.req.pc = "forwarding"
    /\ \E status_code \in {200, 500, 502} :
         mock_cloud' = [mock_cloud EXCEPT !.req.pc = "done",
                                          !.req.status_code = status_code]
    /\ UNCHANGED outside_mock_cloud

MockCloudInit ==
    /\ PipelineInitWith(TRUE, Call("init", Frame("none"), DOWNSTREAM))
    /\ ServerInitWith(NoTimeout, 0, 0)
    /\ in_flight = "none"
    /\ lifespan = [constructed |-> FALSE]
    /\ bot_session = [constructed |-> FALSE]
    /\ dialout = [constructed |-> FALSE]
    /\ feature_manager = [constructed |-> FALSE]
    /\ voicemail = [constructed |-> FALSE]
    /\ webhook = [constructed |-> FALSE]
    /\ mock_cloud = [constructed |-> TRUE,
                     active_sessions |-> {},
                     whatsapp_call_sessions |-> <<>>,
                     bots |-> <<>>,
                     next_session |-> 1,
                     req |-> Idle,
                     proxy |-> [session_id |-> 0, status_code |-> 0]]

MockCloudNext ==
    \/ start_agent
    \/ call_bot_and_store_begin
    \/ call_bot_and_store_end
    \/ proxy_request
    \/ whatsapp_webhook
    \/ wait_for_bot_start
    \/ whatsapp_webhook_forwarded

MockCloudSpec == MockCloudInit /\ [][MockCloudNext]_vars

\* ======================================================= base image sessions
\* pipecat-base/app.py: the /bot and /ws handlers and run_bot. bot_session holds
\* the requests the app is serving (by x-daily-session-id) and the log sink.
\* A request is "new" before it arrives, "accepted" between ws.accept() and the
\* decoding of the body, "running" while run_bot awaits bot(args), "done" when
\* the handler has returned and "raised" when an exception left the handler.
BotSessionIds == 1..MaxBotSessions
\* What an optional header or query parameter can hold.
Headers == {"None", "value"}
Bodies == {"None", "base64 json", "garbage"}
\* How await bot(args) ends. Exception stands for any instance of Exception,
\* BaseException for one that is not (asyncio.CancelledError, SystemExit).
BotOutcomes == {"returns", "Exception", "BaseException"}

NewSession == [pc |-> "new", route |-> "none", args |-> "none", body |-> "none",
               ws_state |-> "none", response |-> "none", closed |-> FALSE,
               outcome |-> "none"]

LogRecord(session_id, message) == [session_id |-> session_id, message |-> message]

\* Variant: the except clause catches nothing.
Caught_nothing(outcome) == FALSE

\* run_bot, line 65: except Exception.
Caught(outcome) == outcome = "Exception"

\* run_bot, lines 61-64: the log record on entering the session.
run_bot_begin(log, session_id) == Append(log, LogRecord(session_id, "Starting bot session"))

\* run_bot, lines 64-67, from the end of await bot(args): the log after it, and
\* whether run_bot returns.
run_bot_end(log, session_id, outcome) ==
    IF outcome = "returns"
    THEN [returns |-> TRUE,
          log |-> Append(log, LogRecord(session_id, "Stopping bot session"))]
    ELSE IF Caught(outcome)
    THEN [returns |-> TRUE,
          log |-> log \o <<LogRecord(session_id, "Exception running bot()"),
                           LogRecord(session_id, "Stopping bot session")>>]
    ELSE [returns |-> FALSE, log |-> log]

\* handle_bot_request, lines 70-90, up to await bot(args) inside run_bot.
handle_bot_request ==
    /\ bot_session.constructed
    /\ \E session_id \in BotSessionIds, x_daily_room_url \in Headers, x_daily_room_token \in Headers :
          /\ bot_session.sessions[session_id].pc = "new"
          /\ bot_session' =
                [bot_session EXCEPT
                   !.sessions[session_id] =
                       [@ EXCEPT !.pc = "running",
                                 !.route = "/bot",
                                 !.args = IF x_daily_room_url # "None" /\ x_daily_room_token # "None"
                                          THEN "DailySessionArguments"
                                          ELSE "PipecatSessionArguments"],
                   !.log = run_bot_begin(@, session_id)]
    /\ UNCHANGED outside_bot_session

\* handle_websocket, lines 95-101: await ws.accept().
handle_websocket ==
    /\ bot_session.constructed
    /\ \E session_id \in BotSessionIds, body \in Bodies :
          /\ bot_session.sessions[session_id].pc = "new"
          /\ bot_session' =
                [bot_session EXCEPT
                   !.sessions[session_id] =
                       [@ EXCEPT !.pc = "accepted",
                                 !.route = "/ws",
                                 !.body = body,
                                 !.ws_state = "CONNECTED"]]
    /\ UNCHANGED outside_bot_session

\* handle_websocket, lines 103-119, up to await bot(args) inside run_bot. A body
\* that does not decode is logged outside the session's log context and the
\* session runs with body None.
handle_websocket_accepted ==
    /\ bot_session.constructed
    /\ \E session_id \in BotSessionIds :
          LET s == bot_session.sessions[session_id]
              decoded == IF s.body = "garbage"
                         THEN Append(bot_session.log, LogRecord(0, "Failed to decode body parameter"))
                         ELSE bot_session.log
          IN  /\ s.pc = "accepted"
              /\ bot_session' =
                    [bot_session EXCEPT
                       !.sessions[session_id] =
                           [@ EXCEPT !.pc = "running",
                                     !.args = "WebSocketSessionArguments",
                                     !.body = IF s.body = "base64 json" THEN "dict" ELSE "None"],
                       !.log = run_bot_begin(decoded, session_id)]
    /\ UNCHANGED outside_bot_session

\* The peer, or the bot's transport, closes the websocket of a session.
websocket_disconnect ==
    /\ bot_session.constructed
    /\ \E session_id \in BotSessionIds :
          /\ bot_session.sessions[session_id].pc \in {"accepted", "running"}
          /\ bot_session.sessions[session_id].ws_state = "CONNECTED"
          /\ bot_session' =
                [bot_session EXCEPT !.sessions[session_id].ws_state = "DISCONNECTED"]
    /\ UNCHANGED outside_bot_session

\* await bot(args) ends; the rest of run_bot (lines 65-67) and of the handler:
\* handle_bot_request returns {} (line 92), handle_websocket closes a websocket
\* that is still connected (lines 121-122).
bot_ends ==
    /\ bot_session.constructed
    /\ \E session_id \in BotSessionIds, outcome \in BotOutcomes :
          LET s == bot_session.sessions[session_id]
              ran == run_bot_end(bot_session.log, session_id, outcome)
          IN  /\ s.pc = "running"
              /\ bot_session' =
                    [bot_session EXCEPT
                       !.sessions[session_id] =
                           IF ~ran.returns
                           THEN [s EXCEPT !.pc = "raised", !.outcome = outcome]
                           ELSE IF s.route = "/bot"
                           THEN [s EXCEPT !.pc = "done", !.outcome = outcome,
                                          !.response = "{}"]
                           ELSE [s EXCEPT !.pc = "done", !.outcome = outcome,
                                          !.closed = (s.ws_state = "CONNECTED"),
                                          !.ws_state = IF s.ws_state = "CONNECTED"
                                                       THEN "DISCONNECTED" ELSE @],
                       !.log = ran.log]
    /\ UNCHANGED outside_bot_session

BotSessionInit ==
    /\ PipelineInitWith(TRUE, Call("init", Frame("none"), DOWNSTREAM))
    /\ ServerInitWith(NoTimeout, 0, 0)
    /\ in_flight = "none"
    /\ lifespan = [constructed |-> FALSE]
    /\ mock_cloud = [constructed |-> FALSE]
    /\ dialout = [constructed |-> FALSE]
    /\ feature_manager = [constructed |-> FALSE]
    /\ voicemail = [constructed |-> FALSE]
    /\ webhook = [constructed |-> FALSE]
    /\ bot_session = [constructed |-> TRUE,
                      sessions |-> [session_id \in BotSessionIds |-> NewSession],
                      log |-> <<>>]

BotSessionNext ==
    \/ handle_bot_request
    \/ handle_websocket
    \/ handle_websocket_accepted
    \/ websocket_disconnect
    \/ bot_ends

BotSessionSpec == BotSessionInit /\ [][BotSessionNext]_vars

\* ================================================================ properties
Range(q) == {q[i] : i \in 1..Len(q)}
InSink(n) == \E i \in 1..Len(sink) : sink[i].id = n
\* The frames the last step pushed downstream.
PushedNow == {e.frame : e \in {x \in Range(out) : x.eff = "push"}}
IsReleasedFrame(frame) == frame.id \in released
IsInterruption(call) ==
    call.op = "gate" /\ call.frame.type = "StartInterruptionFrame"

\* C1 - No premature delivery: a frame that reached the gate while it was
\* closed is in the sink only if a wait() of the flush loop returned while the
\* frame was buffered.
NoPrematureDelivery ==
    \A i \in 1..Len(sink) :
        sink[i].id \in pushed_closed => sink[i].id \in released

\* A frame pushed while the gate was closed has been delivered, and another one
\* is still held back.
NoPrematureDeliveryWitness ==
    /\ \E i \in 1..Len(sink) : sink[i].id \in pushed_closed
    /\ \E n \in pushed_closed : ~InSink(n) /\ n \in Ids(frames_buffer)

\* C2 - Order preservation: the sink never holds a frame twice, the frames
\* delivered by flushes appear in it in the order they reached the gate, and a
\* flush that is not cancelled delivers every frame of the list it took, the
\* first flush_idx of them by the time it has made flush_idx pushes.
OrderPreservation ==
    /\ \A i, j \in 1..Len(sink) : i < j => sink[i] # sink[j]
    /\ LET flushed == SelectSeq(sink, IsReleasedFrame)
       IN \A i, j \in 1..Len(flushed) : i < j => flushed[i].id < flushed[j].id
    /\ gate_task = "flushing" =>
          \A i \in 1..Len(flush_list) : InSink(flush_list[i][1].id) <=> i <= flush_idx
    /\ gate_task = "waiting" => \A n \in released : InSink(n)

\* Two buffered frames have been flushed and the loop is back in wait().
OrderPreservationWitness ==
    /\ gate_task = "waiting"
    /\ Cardinality({n \in released : InSink(n)}) >= 2

\* C3 - Interruption discard: right after an interruption-begin the buffer is
\* empty and the gate closed, and no frame that was in the buffer at an
\* interruption-begin is pushed downstream in a later step.
InterruptionDiscard ==
    /\ IsInterruption(last) => frames_buffer = <<>> /\ ~gate_open
    /\ last.op = "task" => \A frame \in PushedNow : frame.id \notin discarded

\* C4 - Gate state invariant: the buffer is empty whenever the gate is open.
GateStateInvariant == gate_open => frames_buffer = <<>>

\* C5 - Interruption race: a frame the flush had not yet pushed when an
\* interruption-begin was processed is not pushed afterwards, and a flush that
\* was interrupted ends with the gate closed and the buffer empty.
InterruptionRace ==
    /\ [](last.op = "task" => \A frame \in PushedNow : frame.id \notin stale)
    /\ [][gate_task = "flushing" /\ ~flush_same /\ gate_task' = "waiting"
            => ~gate_open' /\ frames_buffer' = <<>>]_vars

\* C6 - Coalesced notify: one or more notify() calls since the last wait()
\* leave exactly one release pending, and after a wait() has returned nothing
\* is pending, so a second wait() blocks until a further notify().
CoalescedNotify ==
    /\ notified >= 1 <=> pending
    /\ (\E e \in Range(out) : e.eff = "wait") => ~pending

\* A wait() has returned after two or more notify() calls and the flush loop
\* is blocked in its next wait().
CoalescedNotifyWitness ==
    /\ out = <<WaitEff(2)>>
    /\ gate_task = "waiting"
    /\ ~pending

\* C7 - No lost signal: every notify() leaves the flag set, also when the flush
\* loop is not waiting; the flag is cleared only by a wait() of the flush loop
\* returning, and that step opens the gate; and a flag set while the loop is
\* alive leads to such a return (or to the teardown of the loop).
NotifyNow == \E e \in Range(out) : e.eff = "notify"
WokeNow == (\E e \in Range(out) : e.eff = "wait") /\ gate_open
NoLostSignal ==
    /\ [](NotifyNow => pending)
    /\ [][pending /\ ~pending' => gate_task = "waiting" /\ gate_open']_vars
    /\ (pending /\ gate_task \in {"waiting", "flushing"}) ~> (WokeNow \/ gate_task = "cancelled")

\* A notify() has just been issued while the flush loop was in the middle of a
\* flush.
NoLostSignalWitness ==
    /\ NotifyNow
    /\ gate_task = "flushing"
    /\ flush_idx < Len(flush_list)

\* C8 - Classifier bypass: for an LLMMessagesFrame the filter fires the
\* notifier and pushes nothing.
ClassifierBypass ==
    (last.op = "filter" /\ last.frame.type = "LLMMessagesFrame")
        => out = <<NotifyEff>> /\ pending

\* The filter has processed an LLMMessagesFrame that carries a user message.
ClassifierBypassWitness ==
    /\ last.op = "filter"
    /\ last.frame.type = "LLMMessagesFrame"
    /\ \E i \in 1..Len(last.frame.messages) : last.frame.messages[i].role = "user"

\* C9 - Idle liveness: once the session is silent, a started, closed gate leads
\* to an open gate, and every frame it holds leads to that frame in the sink,
\* unless the session is torn down first.
GateStarted == gate_task \in {"waiting", "flushing"}
IdleLiveness ==
    /\ (silent /\ GateStarted /\ ~gate_open) ~> (gate_open \/ gate_task = "cancelled")
    /\ \A n \in 1..MaxFrames :
          (silent /\ GateStarted /\ ~gate_open /\ n \in Ids(frames_buffer))
              ~> (InSink(n) \/ gate_task = "cancelled")

\* The claim's own reading of a context: the texts of the trailing user
\* messages, oldest first (a str content, or the text parts of a list content
\* in their order), joined by a space.
RECURSIVE PartTexts(_)
PartTexts(parts) ==
    IF parts = <<>> THEN <<>>
    ELSE (IF parts[1].type = "text" THEN <<parts[1].text>> ELSE <<>>) \o PartTexts(Tail(parts))
MessageTexts(m) ==
    IF m.content.kind = "str" THEN <<m.content.text>> ELSE PartTexts(m.content.parts)
RECURSIVE TrailingUserTexts(_)
TrailingUserTexts(messages) ==
    IF messages = <<>> \/ messages[Len(messages)].role # "user" THEN <<>>
    ELSE TrailingUserTexts(SubSeq(messages, 1, Len(messages) - 1))
             \o MessageTexts(messages[Len(messages)])
TrailingUserText(messages) == Join(TrailingUserTexts(messages))

\* C10 - End-to-end completion: a context update with a non-empty trailing
\* user text yields exactly one request, whose only user message is that text;
\* a "YES" makes the check push a UserStoppedSpeakingFrame and fire the
\* notifier; and the step of the flush loop that consumes it opens the gate.
EndToEndCompletion ==
    /\ (last.op = "filter" /\ last.frame.type = "OpenAILLMContextFrame"
            /\ ~IsSystemFrame(last.frame)
            /\ TrailingUserText(last.frame.messages) # <<>>)
        => /\ Len(out) = 1
           /\ out[1].eff = "push"
           /\ out[1].frame.type = "LLMMessagesFrame"
           /\ LET msgs == out[1].frame.messages
                  users == {i \in 1..Len(msgs) : msgs[i].role = "user"}
              IN /\ users = {Len(msgs)}
                 /\ msgs[Len(msgs)].content = Str(TrailingUserText(last.frame.messages))
    /\ (last.op = "check" /\ last.frame = TextFrame("YES"))
        => /\ Push(Frame("UserStoppedSpeakingFrame"), DOWNSTREAM) \in Range(out)
           /\ pending
    /\ (\E e \in Range(out) : e.eff = "wait") => gate_open

\* C11 - Stale YES after interruption: an interruption-begin leaves the buffer
\* with length 0; no frame that was in the buffer of a closed gate at an
\* interruption-begin is ever in the sink; and a wait() that returns on a later
\* notification with the buffer empty opens the gate, pushes nothing and leaves
\* the flush loop in its next wait().
WaitReturnedNow == \E e \in Range(out) : e.eff = "wait"
StaleYes ==
    /\ IsInterruption(last) => Len(frames_buffer) = 0
    /\ \A n \in cleared : ~InSink(n)
    /\ (WaitReturnedNow /\ frames_buffer = <<>>)
           => gate_open /\ gate_task = "waiting" /\ PushedNow = {}

\* Two frames were held by a closed gate when an interruption-begin cleared
\* them, and the wait() of the flush loop has since returned on a notification:
\* the gate is open and the sink is empty.
StaleYesWitness ==
    /\ Cardinality(cleared) >= 2
    /\ WaitReturnedNow
    /\ gate_open
    /\ frames_buffer = <<>>
    /\ sink = <<>>

\* C12 - YES ordering: for a TextFrame "YES" the check pushes the
\* UserStoppedSpeakingFrame downstream first and fires the notifier after it,
\* once, and does nothing else; the call itself delivers no frame of the gate
\* and leaves the gate as it was, so whatever the gate flushes on that
\* notification is pushed in later steps of the flush loop.
IsYes(call) == call.op = "check" /\ call.frame.type = "TextFrame" /\ call.frame.text = "YES"
YesOrdering ==
    /\ [](IsYes(last)
            => /\ Len(out) = 2
               /\ out[1] = Push(Frame("UserStoppedSpeakingFrame"), DOWNSTREAM)
               /\ out[2] = NotifyEff
               /\ pending
               /\ Cardinality({i \in 1..Len(out) : out[i].eff = "notify"}) = 1)
    /\ [][IsYes(last') => UNCHANGED <<gate_vars, sink>>]_vars

\* A "YES" has been processed while the closed gate holds two frames and its
\* flush loop is in wait().
YesOrderingWitness ==
    /\ last.op = "check"
    /\ last.frame = TextFrame("YES")
    /\ ~gate_open
    /\ gate_task = "waiting"
    /\ Len(frames_buffer) >= 2

\* C13 - NO is inert: the step in which a TextFrame "NO" is processed pushes
\* no frame, fires no notifier and leaves the notifier, the gate's open flag,
\* its buffer, its flush loop and the sink as they were.
NoIsInert ==
    [][(last'.op = "check" /\ last'.frame.type = "TextFrame" /\ last'.frame.text = "NO")
          => /\ out' = <<>>
             /\ UNCHANGED <<pending, notified, gate_vars, sink>>]_vars

\* A "NO" has been processed while the closed gate holds a frame and no
\* notification is set.
NoIsInertWitness ==
    /\ last.op = "check"
    /\ last.frame = TextFrame("NO")
    /\ ~gate_open
    /\ frames_buffer # <<>>
    /\ ~pending

\* C14 - Unrecognized verdicts: a frame that is not a TextFrame whose text is
\* exactly "YES" or exactly "NO" is pushed once, unchanged, in the direction it
\* came in, and the notifier is not fired.
UnrecognizedVerdict ==
    (last.op = "check"
        /\ ~(last.frame.type = "TextFrame" /\ last.frame.text \in {"YES", "NO"}))
        => /\ out = <<Push(last.frame, last.dir)>>
           /\ ~pending
           /\ notified = 0

\* The check has processed a frame that carries the text "YES" without being a
\* TextFrame, travelling upstream.
UnrecognizedVerdictWitness ==
    /\ last.op = "check"
    /\ last.frame.type # "TextFrame"
    /\ last.frame.text = "YES"
    /\ last.dir = UPSTREAM
    /\ out # <<>>

\* C15 - Control frames are never held: whichever of the filter, the check and
\* the gate processes a start, end, cancel, interruption-begin or
\* interruption-end frame pushes exactly that frame, in the direction it came
\* in, within that call.
ControlFrameForwarded ==
    (last.op \in {"filter", "check", "gate"} /\ last.frame \in ControlFrames)
        => out = <<Push(last.frame, last.dir)>>

\* C16 - Bounded graceful drain: with a deadline configured shutdown() is
\* never found waiting for connections or for background tasks after the
\* deadline has passed, and it returns.
BoundedDrain ==
    /\ []((should_exit_deadline # NoTimeout /\ server_pc \in {"connections", "tasks"})
            => now <= should_exit_deadline)
    /\ (should_exit_timeout # NoTimeout) ~> (server_pc = "exited")

\* C17 - Teardown stops the flush loop: once the gate has processed an EndFrame
\* or a CancelFrame its flush loop is neither waiting nor flushing, and no step
\* of the flush loop (a wait() return, which opens the gate, or a push) follows.
IsTeardown(call) == call.op = "gate" /\ call.frame.type \in {"EndFrame", "CancelFrame"}
TeardownStopsLoop ==
    /\ IsTeardown(last) => ~GateStarted
    /\ (end_sent \/ gate_task = "cancelled") => last.op # "task"

\* C18 - Cancellation is clean: no process_frame call of the gate raises,
\* also a CancelFrame before any StartFrame, and a cancelled flush loop leaves
\* no frame in the sink twice.
CleanCancellation ==
    /\ ~raised
    /\ gate_task = "cancelled" => \A i, j \in 1..Len(sink) : i < j => sink[i] # sink[j]

\* C19 - Upstream frames bypass the gate: the step in which the gate processes
\* a non-control frame travelling upstream pushes exactly that frame upstream
\* and leaves the open flag, the buffer, the flush loop and the sink as they
\* were.
UpstreamBypass ==
    [][(last'.op = "gate" /\ last'.dir = UPSTREAM /\ last'.frame \notin ControlFrames
            /\ ~IsSystemFrame(last'.frame))
          => /\ out' = <<Push(last'.frame, UPSTREAM)>>
             /\ UNCHANGED <<gate_vars, sink>>]_vars

\* An upstream frame has been forwarded by a closed gate that holds a frame.
UpstreamBypassWitness ==
    /\ last.op = "gate"
    /\ last.dir = UPSTREAM
    /\ ~IsSystemFrame(last.frame)
    /\ out = <<Push(last.frame, UPSTREAM)>>
    /\ ~gate_open
    /\ frames_buffer # <<>>

\* C20 - Gate transitions have exactly two causes: the open flag goes from
\* closed to open only in the step in which the waiting flush loop's wait()
\* returns on a set notification, and from open to closed only in the step that
\* processes a StartInterruptionFrame; a flush that no interruption has
\* crossed ends with the gate open; and an open gate pushes a downstream frame
\* in the call that brings it, without buffering it.
GateTransitions ==
    /\ [][~gate_open /\ gate_open'
            => gate_task = "waiting" /\ pending /\ WaitReturnedNow']_vars
    /\ [][gate_open /\ ~gate_open' => IsInterruption(last')]_vars
    /\ [][gate_task = "flushing" /\ flush_same /\ gate_task' = "waiting" => gate_open']_vars
    /\ []((last.op = "gate" /\ ~IsSystemFrame(last.frame) /\ last.dir = DOWNSTREAM /\ gate_open)
            => /\ out = <<Push(last.frame, DOWNSTREAM)>>
               /\ last.frame.id \notin Ids(frames_buffer))

\* Every frame that reached the closed gate was released by a wait() return,
\* the flush is over, and a later frame has been pushed by the open gate in the
\* call that brought it.
GateTransitionsWitness ==
    /\ last.op = "gate"
    /\ last.frame.id > 0
    /\ out = <<Push(last.frame, DOWNSTREAM)>>
    /\ gate_open
    /\ gate_task = "waiting"
    /\ pushed_closed # {}
    /\ released = pushed_closed
    /\ last.frame.id \notin pushed_closed

\* C21 - Interruption invalidates the in-flight classification: the step in
\* which the check processes the verdict of a request that an
\* interruption-begin has overtaken fires no notifier and leaves the
\* notification flag as it was.
StaleVerdictIgnored ==
    [][(in_flight = "stale" /\ last'.op = "check" /\ in_flight' = "none")
          => /\ \A i \in 1..Len(out') : out'[i].eff # "notify"
             /\ pending' = pending]_vars

\* C22 - Interruption leaves the Notifier untouched: the step in which the
\* gate processes an interruption-begin leaves the notification flag as it
\* was, and besides the buffer and the open flag it changes neither the flush
\* loop nor the sink.
InterruptionKeepsNotifier ==
    [][IsInterruption(last')
          => UNCHANGED <<pending, notified, gate_task, flush_list, flush_idx, sink>>]_vars

\* An interruption-begin has cleared the frames held by a closed gate while a
\* notification was set, and the notification is still set.
InterruptionKeepsNotifierWitness ==
    /\ IsInterruption(last)
    /\ pending
    /\ cleared # {}
    /\ frames_buffer = <<>>

\* C23 - Chronological extraction: the user message of the request pushed for
\* a context is the text of its trailing user entries, oldest first, str
\* contents and text parts alike; and the entry at which the backward walk
\* stops is in the request, before the user message, exactly when it is an
\* assistant entry.
BoundaryIndex(messages) ==
    LET others == {i \in 1..Len(messages) : messages[i].role # "user"}
    IN IF others = {} THEN 0 ELSE CHOOSE i \in others : \A j \in others : j <= i
IsContextCall(call) ==
    call.op = "filter" /\ call.frame.type = "OpenAILLMContextFrame"
ChronologicalExtraction ==
    (IsContextCall(last) /\ out # <<>>)
        => LET messages == last.frame.messages
               request == out[1].frame.messages
               b == BoundaryIndex(messages)
               anchored == b > 0 /\ messages[b].role = "assistant"
           IN /\ request[Len(request)] = Message("user", Str(TrailingUserText(messages)))
              /\ request[1] = Message("system", classifier_statement)
              /\ Len(request) = IF anchored THEN 3 ELSE 2
              /\ anchored => request[2] = messages[b]

\* C24 - The filter branch only produces classification requests: for a
\* context update the filter pushes one LLMMessagesFrame downstream if the walk
\* found at least one trailing user text fragment and nothing otherwise, never
\* more than one; and for a frame that is neither a control frame, a context
\* update nor an LLMMessagesFrame it pushes nothing.
OnlyRequests ==
    /\ IsContextCall(last)
        => /\ Len(out) <= 1
           /\ out # <<>> <=> TrailingUserTexts(last.frame.messages) # <<>>
           /\ out # <<>> => /\ out[1].eff = "push"
                            /\ out[1].frame.type = "LLMMessagesFrame"
                            /\ out[1].dir = DOWNSTREAM
    /\ (last.op = "filter" /\ last.frame \notin ControlFrames /\ ~IsSystemFrame(last.frame)
            /\ last.frame.type \notin {"OpenAILLMContextFrame", "LLMMessagesFrame"})
        => out = <<>>

\* The filter has processed a context whose trailing user entry carries an
\* image and no text, and has pushed nothing.
OnlyRequestsWitness ==
    /\ IsContextCall(last)
    /\ Len(last.frame.messages) = 2
    /\ last.frame.messages[2] = Message("user", List(<<ImagePart>>))
    /\ out = <<>>

\* C25 - The filter does not mutate shared state: the frame the filter was
\* called with, and with it the message list of the shared context, is after
\* the call what it was before it.
FilterKeepsContext ==
    [][(last.op = "input" /\ last'.op = "filter") => last'.frame = last.frame]_vars

\* The filter has walked a context of two different entries and pushed a
\* request for it.
FilterKeepsContextWitness ==
    /\ IsContextCall(last)
    /\ Len(last.frame.messages) = 2
    /\ last.frame.messages[1] # last.frame.messages[2]
    /\ last.frame.messages[1].role = "user"
    /\ out # <<>>

\* C26 - Second completion signal is a safe no-op: a wait() that returns while
\* the gate is already open leaves it open, pushes nothing, finds the buffer
\* empty and leaves the flush loop in wait(); no frame is in the sink twice and
\* the flushed frames are in it in the order they reached the gate.
SecondSignalNoOp ==
    /\ [][(gate_open /\ ~flush_same /\ pending /\ ~pending')
            => /\ gate_open'
               /\ gate_task' = "waiting"
               /\ frames_buffer' = <<>>
               /\ sink' = sink]_vars
    /\ [](\A i, j \in 1..Len(sink) : i < j => sink[i].id # sink[j].id \/ sink[i].id = 0)
    /\ [](\A i, j \in 1..Len(sink) :
            (i < j /\ sink[i].id \in released /\ sink[j].id \in released)
                => sink[i].id < sink[j].id)

\* Both frames the closed gate held have been flushed on one notification, and
\* a wait() has since returned on another one with nothing to flush.
SecondSignalNoOpWitness ==
    /\ WaitReturnedNow
    /\ gate_open
    /\ gate_task = "waiting"
    /\ Cardinality(released) >= 2
    /\ \A n \in released : InSink(n)

\* C27 - Bounded dial-out retries: the handler begins a round for each of its
\* first max_attempts start_dialout calls and for no other; a round dials each
\* setting that has a phoneNumber or a sipUri once, in the order of the
\* settings, and nothing else; and a call past the max_attempts-th begins no
\* round and dials nothing.
DialsOf(settings) ==
    LET dialable == SelectSeq(settings, LAMBDA x : DialArgs(x) # NoDial)
    IN [i \in 1..Len(dialable) |-> DialArgs(dialable[i])]
BoundedDialout ==
    /\ [](dialout.constructed
            => /\ Len(dialout.rounds) <= dialout.max_attempts
               /\ Len(dialout.rounds) =
                     (IF dialout.dialout_attempt_count <= dialout.max_attempts
                      THEN dialout.dialout_attempt_count ELSE dialout.max_attempts)
               /\ \A r \in 1..Len(dialout.rounds) :
                     LET round == dialout.rounds[r]
                     IN round.dialed =
                           DialsOf(SubSeq(dialout.dialout_settings, 1, round.pos - 1)))
    /\ [][(dialout.constructed
             /\ dialout.dialout_attempt_count >= dialout.max_attempts
             /\ dialout'.dialout_attempt_count = dialout.dialout_attempt_count + 1)
            => dialout'.rounds = dialout.rounds]_vars

\* The handler has given up after max_attempts = 2 rounds, each of which has
\* dialled both of its settings.
BoundedDialoutWitness ==
    /\ dialout.constructed
    /\ dialout.max_attempts = 2
    /\ dialout.refused >= 1
    /\ Len(dialout.rounds) = 2
    /\ \A r \in 1..2 : Len(dialout.rounds[r].dialed) = 2 /\ dialout.rounds[r].pos = 3

\* C28 - Feature dependency chain: a constructed FeatureManager has an entry
\* for each of the six FeatureKeys, whatever the probes found; the SmallWebRTC
\* transport is enabled only if the SmallWebRTC session is, and the patch or
\* WhatsApp is enabled only if the transport is; and is_enabled answers by the
\* entry's status.
Enabled(key) == is_enabled(feature_manager.features, key)
FeatureDependencyChain ==
    feature_manager.constructed
      => /\ DOMAIN feature_manager.features = FeatureKeys
         /\ \A key \in FeatureKeys : feature_manager.features[key] \in FeatureStatus
         /\ Enabled("SMALLWEBRTC_TRANSPORT") => Enabled("SMALL_WEBRTC_SESSION")
         /\ (Enabled("SMALLWEBRTC_PATCH") \/ Enabled("WHATSAPP"))
               => Enabled("SMALLWEBRTC_TRANSPORT")
         /\ feature_manager.asked.key # "none"
               => feature_manager.asked.enabled = Enabled(feature_manager.asked.key)

\* The patch and WhatsApp probes would both succeed, but the transport probe
\* failed under an enabled session: the two dependants are asked about and
\* are not enabled.
FeatureDependencyChainWitness ==
    /\ feature_manager.constructed
    /\ feature_manager.probes.patch = "ok"
    /\ feature_manager.probes.whatsapp = "ok"
    /\ feature_manager.probes.whatsapp_secret
    /\ feature_manager.probes.environ = required_env_vars
    /\ Enabled("SMALL_WEBRTC_SESSION")
    /\ feature_manager.features["SMALLWEBRTC_TRANSPORT"] = "ERROR"
    /\ feature_manager.features["SMALLWEBRTC_PATCH"] = "DISABLED"
    /\ feature_manager.asked = [key |-> "WHATSAPP", enabled |-> FALSE]

\* C29 - Voicemail-detection hand-off ordering: in voicemail-detection mode
\* the human-conversation pipeline has been started only if the main pipeline's
\* run has finished and human_detected is set; the two pipelines are never
\* inside their runs together; and main() ends without a second pipeline when
\* no human was detected.
Started(name) ==
    name \in DOMAIN voicemail.pipelines /\ voicemail.pipelines[name].run # "none"
Running(name) ==
    name \in DOMAIN voicemail.pipelines /\ voicemail.pipelines[name].run = "running"
HandOffOrdering ==
    (voicemail.constructed /\ voicemail.using_voicemail_detection)
      => /\ Started("human_conversation")
              => voicemail.pipelines["main"].run = "finished" /\ voicemail.human_detected
         /\ ~(Running("main") /\ Running("human_conversation"))
         /\ ~voicemail.human_detected => ~Started("human_conversation")

\* The human-conversation pipeline is running after the detection run ended
\* with a human detected.
HandOffOrderingWitness ==
    /\ voicemail.constructed
    /\ voicemail.using_voicemail_detection
    /\ voicemail.human_detected
    /\ Running("human_conversation")
    /\ voicemail.pipelines["main"].run = "finished"

\* C30 - Webhook verification, as claimed: the request is answered with the
\* challenge if and only if hub.mode is "subscribe", hub.challenge is present
\* and non-empty, and hub.verify_token equals the expected token; every other
\* request raises ValueError and is answered 403.
Verified ==
    /\ webhook.params["hub.mode"] = Param("subscribe")
    /\ webhook.params["hub.challenge"] # Missing
    /\ webhook.params["hub.challenge"] # Param(<<>>)
    /\ webhook.params["hub.verify_token"] = webhook.expected_token
Returned == webhook.result.raised = "none" /\ webhook.status_code = 200
Refused == webhook.result.raised = "ValueError" /\ webhook.status_code = 403
NoOvertaking ==
    gate_task = "flushing" =>
        \A k \in (flush_idx + 1)..Len(flush_list) :
            \A i \in 1..Len(sink) :
                (flush_list[k][1].id # 0 /\ sink[i].id # 0)
                    => sink[i].id < flush_list[k][1].id

\* C33 - No silent loss: a frame leaves the buffer only in a step after which
\* it is in the sink (a flush delivered it), or in the processing of an
\* interruption-begin, a StartFrame, an EndFrame or a CancelFrame.
NoSilentLoss ==
    [][\A n \in Ids(frames_buffer) \ Ids(frames_buffer') :
          \/ \E i \in 1..Len(sink') : sink'[i].id = n
          \/ /\ last'.op = "gate"
             /\ last'.frame.type \in {"StartInterruptionFrame", "StartFrame",
                                       "EndFrame", "CancelFrame"}]_vars

\* C36 - PipelineHandler lifecycle: _is_running is true only while start() is
\* inside its run; once start() has returned, _is_running is false and task
\* and runner are None; and task.cancel() is called only by a stop() that
\* finds a task and _is_running true.
HandlerLifecycle ==
    /\ [](voicemail.constructed =>
            \A name \in DOMAIN voicemail.pipelines :
                LET handler == voicemail.pipelines[name]
                IN /\ handler.is_running => handler.run = "running"
                   /\ handler.run = "finished"
                        => ~handler.is_running /\ ~handler.task /\ ~handler.runner)
    /\ [][voicemail.constructed =>
            \A name \in DOMAIN voicemail.pipelines \cap DOMAIN voicemail'.pipelines :
                (voicemail'.pipelines[name].cancelled /\ ~voicemail.pipelines[name].cancelled)
                    => voicemail.pipelines[name].task /\ voicemail.pipelines[name].is_running]_vars

\* The main pipeline was stopped by a leave event while it ran, and its
\* start() has since returned; stop() was called once more after that.
HandlerLifecycleWitness ==
    /\ voicemail.constructed
    /\ voicemail.pc = "done"
    /\ voicemail.using_voicemail_detection
    /\ ~voicemail.human_detected
    /\ voicemail.pipelines["main"].cancelled
    /\ voicemail.pipelines["main"].run = "finished"

\* C38 - Shutdown step ordering: shutdown() goes from closing the servers and
\* sockets to the wait for connections, from there to the wait for background
\* tasks, from there to the lifespan shutdown event, and returns; it sleeps
\* only in the two waits; the lifespan event is sent in the last step and only
\* if force_exit is not set; and with force_exit set it does not sleep again.
ShutdownOrdering ==
    /\ [][server_pc' # server_pc =>
            <<server_pc, server_pc'>> \in
                {<<"serving", "connections">>, <<"connections", "tasks">>,
                 <<"tasks", "lifespan">>, <<"lifespan", "exited">>}]_vars
    /\ [][now' # now =>
            \/ server_pc = "connections" /\ server_pc' = "connections" /\ connections > 0
            \/ server_pc = "tasks" /\ server_pc' = "tasks" /\ tasks > 0]_vars
    /\ [][lifespan_down' # lifespan_down =>
            server_pc = "lifespan" /\ server_pc' = "exited" /\ ~force_exit]_vars
    /\ [][force_exit => now' = now /\ lifespan_down' = lifespan_down]_vars

\* shutdown() has returned after sleeping in a wait that a forced exit ended,
\* with a connection and a background task still there and no lifespan event.
ShutdownOrderingWitness ==
    /\ server_pc = "exited"
    /\ now > 0
    /\ force_exit
    /\ connections > 0
    /\ tasks > 0
    /\ ~lifespan_down

\* C31 - Lifespan composition order: startup enters the lifespan the router
\* had before, if any, and then the registered lifespans in registration
\* order; shutdown exits what startup entered in the reverse order; and once
\* startup is over every registered lifespan has been entered.
IsPrefix(a, b) == Len(a) <= Len(b) /\ a = SubSeq(b, 1, Len(a))
Expected ==
    (IF lifespan.preexisting = NoLifespan THEN <<>> ELSE <<ExistingLifespan>>)
        \o lifespan.registered
LifespanOrder ==
    lifespan.constructed
      => /\ IsPrefix(lifespan.entered, Expected)
         /\ lifespan.phase \in {"running", "shutdown", "stopped"}
               => lifespan.entered = Expected
         /\ IsPrefix(lifespan.exited, ReverseSeq(Expected))
         /\ lifespan.phase = "stopped" => lifespan.exited = ReverseSeq(Expected)

\* Three lifespans were registered, not in the order of their names, on top of
\* the router's own; the application has started and stopped.
LifespanOrderWitness ==
    /\ lifespan.constructed
    /\ lifespan.phase = "stopped"
    /\ lifespan.preexisting # NoLifespan
    /\ lifespan.registered = <<2, 3, 1>>
    /\ lifespan.exited = <<1, 3, 2, 0>>

\* C34 - Session map cleanup: a call_bot_and_store that is past its first
\* suspension point has its session in active_sessions; one that has ended,
\* however it ended, has not; and proxy_request answers 404 exactly for the
\* sessions active_sessions does not have.
SessionCleanup ==
    /\ [](mock_cloud.constructed
            => \A session_id \in DOMAIN mock_cloud.bots :
                  /\ mock_cloud.bots[session_id].pc = "posting"
                        => session_id \in mock_cloud.active_sessions
                  /\ mock_cloud.bots[session_id].pc = "ended"
                        => session_id \notin mock_cloud.active_sessions)
    /\ [][(mock_cloud.constructed /\ mock_cloud'.proxy # mock_cloud.proxy)
            => (mock_cloud'.proxy.status_code = 404
                  <=> mock_cloud'.proxy.session_id \notin mock_cloud.active_sessions)]_vars

\* C35 - Call-to-session mapping lifecycle: a NEW_CALL webhook maps its call id
\* to a session id that no session had before, and when a TERMINATE_CALL
\* webhook has been answered, with whatever status, whatsapp_call_sessions has
\* no entry for its call id.
CallMappingLifecycle ==
    /\ [][(mock_cloud.constructed
             /\ mock_cloud.req.pc \in {"idle", "done"}
             /\ mock_cloud'.req.pc # "done"
             /\ mock_cloud'.req.event_type = "NEW_CALL")
            => /\ mock_cloud'.req.call_id \in DOMAIN mock_cloud'.whatsapp_call_sessions
               /\ mock_cloud'.whatsapp_call_sessions[mock_cloud'.req.call_id]
                     \notin DOMAIN mock_cloud.bots
               /\ mock_cloud'.whatsapp_call_sessions[mock_cloud'.req.call_id]
                     = mock_cloud'.req.session_id]_vars
    /\ []((mock_cloud.constructed
             /\ mock_cloud.req.pc = "done"
             /\ mock_cloud.req.event_type = "TERMINATE_CALL")
            => mock_cloud.req.call_id \notin DOMAIN mock_cloud.whatsapp_call_sessions)

\* C37 - Bot failures are contained in the session wrapper: when bot() raised
\* an Exception, the session's log holds the error record followed by the
\* "Stopping bot session" record, the handler returned instead of raising, the
\* /bot handler answered {} and the /ws handler closed the websocket exactly
\* when it was still connected; in the log, every "Stopping" record of a session
\* comes after a "Starting" record of that session.
LogOf(session_id) ==
    SelectSeq(bot_session.log, LAMBDA r : r.session_id = session_id)
LogMessages(q) == [i \in 1..Len(q) |-> q[i].message]
BotFailureContained ==
    /\ [](bot_session.constructed
            => /\ \A session_id \in BotSessionIds :
                     LET s == bot_session.sessions[session_id] IN
                     (s.outcome = "Exception")
                        => /\ s.pc = "done"
                           /\ LogMessages(LogOf(session_id))
                                 = <<"Starting bot session", "Exception running bot()",
                                     "Stopping bot session">>
                           /\ s.route = "/bot" => s.response = "{}"
                           /\ s.route = "/ws" => s.ws_state # "CONNECTED"
               /\ \A j \in 1..Len(bot_session.log) :
                     bot_session.log[j].message = "Stopping bot session"
                        => \E i \in 1..(j - 1) :
                              /\ bot_session.log[i].session_id = bot_session.log[j].session_id
                              /\ bot_session.log[i].message = "Starting bot session")
    /\ [][bot_session.constructed
            => \A session_id \in BotSessionIds :
                  (/\ bot_session.sessions[session_id].pc = "running"
                   /\ bot_session.sessions[session_id].route = "/ws"
                   /\ bot_session'.sessions[session_id].outcome = "Exception")
                     => (bot_session'.sessions[session_id].closed
                           <=> bot_session.sessions[session_id].ws_state = "CONNECTED")]_vars
BotFailureContainedWitness ==
    /\ bot_session.constructed
    /\ \E session_id \in BotSessionIds :
          /\ bot_session.sessions[session_id].outcome = "Exception"
          /\ bot_session.sessions[session_id].route = "/ws"
          /\ bot_session.sessions[session_id].closed
    /\ \E session_id \in BotSessionIds :
          /\ bot_session.sessions[session_id].outcome = "Exception"
          /\ bot_session.sessions[session_id].route = "/bot"
          /\ bot_session.sessions[session_id].response = "{}"

====
